---- MODULE Spec2Model ----
(***************************************************************************)
(* The credential pool of src/Antigravity/src/auth/token_manager.js        *)
(* (class TokenManager) together with the google_tokens rows it reads and  *)
(* writes, the request handlers that hold credential objects across their  *)
(* awaits, the one-minute quota sweep and the administrative toggle.       *)
(*                                                                         *)
(* JavaScript objects are modelled with their identity: `heap` maps an     *)
(* object id to the object's fields, `tokens` (this.tokens) is a sequence  *)
(* of object ids and a handler's `held` is the id of the object it was     *)
(* given.  loadTokens() builds new objects, so an object obtained before a *)
(* reload is no longer the one in this.tokens.                             *)
(*                                                                         *)
(* Times are milliseconds as Date.now() gives them.  A time of 0 stands    *)
(* for null/undefined: the code reads these fields only through            *)
(* truthiness (`x &&`, `!x`, `x || null`, `x || 0`).                        *)
(***************************************************************************)
EXTENDS Integers, Sequences, FiniteSets, TLC

VARIABLES
  now,                \* Date.now()
  dbUp,               \* FALSE while statements against the store throw
  db,                 \* google_tokens rows with user_id IS NULL, by id
  heap,               \* object id -> fields of the credential object
  tokens,             \* this.tokens: sequence of object ids
  lastLoadTime,       \* this.lastLoadTime
  currentTokenIndex,  \* this.currentTokenIndex
  usageStats,         \* this.usageStats: credential -> requests
  pc,                 \* per handler: where its async call stands
  held,               \* per handler: the credential object it holds (0: none)
  failed,             \* per handler: credential given to handleRequestError (0: none)
  thrown,             \* the error the last step raised, and the handler it was raised to
  swept,              \* TRUE when the last step was a run of the quota sweep
  quarantinedUntil,   \* per credential: the latest resetTime disableTokenUntil was given
  calls,              \* number of getNextToken()/getAnyEnabledToken() calls made
  rotation,           \* credentials getNextToken() returned, in order
  lastCharge,         \* per credential: the latest addUsage() that found it, and what it found
  users,              \* users rows, by id
  userTokens,         \* google_tokens rows with a user_id, by id
  share_bans,         \* share_bans rows
  share_usage,        \* share_usage rows: <<user_id, day, ms>>, timestamp = day * DayMs + ms
  share_blacklist,    \* share_blacklist rows: <<owner_id, token_index, blocked_user_id>>
  borrower,           \* per getRandomSharedToken() call in flight: its locals
  shareLog            \* what the last step of the sharing code returned, and borrow counts

vars == <<now, dbUp, db, heap, tokens, lastLoadTime, currentTokenIndex,
          usageStats, pc, held, failed, thrown, swept, quarantinedUntil,
          calls, rotation, lastCharge, users, userTokens, share_bans,
          share_usage, share_blacklist, borrower, shareLog>>

\* The variables of the sharing code
shareVars == <<users, userTokens, share_bans, share_usage, share_blacklist,
               borrower, shareLog>>

-----------------------------------------------------------------------------
(* Bounds of the model *)

NCreds == 2
MaxTicks == 2
MaxCalls == 2
MaxCharges == 3
MaxBorrows == 2
NUsers == 2
NUserTokens == 2

(* Constants of the program *)

loadInterval == 60000
WrapBound == 10000
ExpiryMarginMs == 30000
DayMs == 86400000
MaxDailyLimit == 10000

Creds == 1..NCreds
\* Two request handlers run concurrently
Procs == {1, 2}
ObjIds == 1..(NCreds + Cardinality(Procs))

\* The clock moves in steps of one cache interval (which is also the period
\* of the quota sweep) and starts one step before a UTC midnight, so that a
\* cache expiry and a midnight fall inside MaxTicks steps.
TickMs == loadInterval
StartTime == 3 * DayMs - TickMs
EndTime == StartTime + MaxTicks * TickMs

Users == 1..NUsers
UserTokenIds == 1..NUserTokens
\* Two getRandomSharedToken() calls run concurrently
Borrowers == {1, 2}

\* Nothing returned by the last step
NoResult == [op |-> "none", callerId |-> 0, value |-> "none", token |-> 0,
             banUntil |-> 0, remainingTime |-> 0, reason |-> "none", list |-> <<>>,
             isShared |-> FALSE, dailyLimit |-> 0, tokenIndex |-> 0,
             targetUserId |-> 0]

\* Lifetimes (seconds) the token endpoint grants, HTTP statuses and messages
\* of upstream errors.  A status of 0 is an error without statusCode (a
\* timeout); a message is a sequence of words, <<>> an absent message.
Lifetimes == {3599}
StatusCodes == {0, 400, 403, 429, 500}
Messages == {<<>>, <<"daily", "quota", "exceeded">>}
Errors == [statusCode : StatusCodes, message : Messages]
Costs == {1, 2}

NoError == [statusCode |-> 0, message |-> <<>>]
NotThrown == [p |-> 0, error |-> NoError, failed |-> 0]
\* What the token endpoint answers to a refresh it refuses
RefreshDenied == [statusCode |-> 400, message |-> <<"invalid_grant">>]
NoTokens == [statusCode |-> 0, message |-> <<"No", "tokens", "available.">>]
NoEnabledTokens == [statusCode |-> 0, message |-> <<"No", "enabled", "tokens", "available.">>]

-----------------------------------------------------------------------------
(* Helpers *)

Range(s) == {s[i] : i \in DOMAIN s}

RECURSIVE SortedSeq(_)
SortedSeq(S) ==
  IF S = {} THEN <<>>
  ELSE LET m == CHOOSE x \in S : \A y \in S : x <= y
       IN <<m>> \o SortedSeq(S \ {m})

RECURSIVE SelectSeqOf(_, _)
\* s.filter(o => o \in keep), order preserved
SelectSeqOf(s, keep) ==
  IF s = <<>> THEN <<>>
  ELSE (IF Head(s) \in keep THEN <<Head(s)>> ELSE <<>>) \o SelectSeqOf(Tail(s), keep)

\* error.message.includes('quota')
Includes(message, word) == \E i \in DOMAIN message : message[i] = word

\* Twenty-four hours on, instead of the start of the next UTC day
NextUtcMidnight_plusDay(t) == t + DayMs

\* The earliest UTC midnight strictly after t
NextUtcMidnight(t) == (t \div DayMs) * DayMs + DayMs

\* new Date(t).toDateString(), as a day number (the process runs in UTC)
DateString(t) == t \div DayMs

NoObj ==
  [cred |-> 0, access_token |-> 0, expires_in |-> 0, timestamp |-> 0,
   enable |-> FALSE, disabledUntil |-> 0, quotaExhausted |-> FALSE,
   totalCost |-> 0, dailyCost |-> 0, lastResetTime |-> 0, totalRequests |-> 0]

\* No addUsage() has found the credential yet
NoCharge == [n |-> 0, cost |-> 0, day |-> 0, before |-> NoObj]

\* One element of rows.map(row => ({...}))
RowToObject(id, row) ==
  [cred |-> id,
   access_token |-> row.access_token,
   expires_in |-> row.expires_in,
   timestamp |-> row.timestamp,
   enable |-> (row.enabled = 1),
   disabledUntil |-> row.disabled_until,
   quotaExhausted |-> (row.quota_exhausted = 1),
   totalCost |-> row.total_cost,
   dailyCost |-> row.daily_cost,
   lastResetTime |-> row.last_reset_time,
   totalRequests |-> row.total_requests]

\* The memory and store a synchronous run of pool code works on
Mem == [db |-> db, heap |-> heap, tokens |-> tokens, lastLoadTime |-> lastLoadTime]

\* Objects some handler still references
HeldObjs == {held[p] : p \in Procs} \ {0}

\* Object ids carry no meaning beyond identity.  After each step the objects
\* still referenced are renumbered: those of this.tokens in array order, then
\* the others by the first handler holding them; the rest are dropped.
RECURSIVE LiveFrom(_, _, _)
LiveFrom(acc, hld, p) ==
  IF p \notin Procs THEN acc
  ELSE IF hld[p] = 0 \/ hld[p] \in Range(acc) THEN LiveFrom(acc, hld, p + 1)
  ELSE LiveFrom(Append(acc, hld[p]), hld, p + 1)

LiveSeq(toks, hld) == LiveFrom(toks, hld, 1)

NewId(live, o) ==
  IF o = 0 THEN 0 ELSE CHOOSE i \in 1..Len(live) : live[i] = o

-----------------------------------------------------------------------------
(* TokenManager *)

\* SELECT * FROM google_tokens WHERE user_id IS NULL AND enabled = 1
EnabledRows(m) == SortedSeq({id \in Creds : m.db[id].enabled = 1})

loadTokens(m, force) ==
  IF ~force /\ now - m.lastLoadTime < loadInterval /\ Len(m.tokens) > 0
  THEN m
  ELSE IF ~dbUp
  THEN [m EXCEPT !.tokens = <<>>]
  ELSE LET rows == EnabledRows(m)
           free == ObjIds \ HeldObjs
           rank(o) == Cardinality({x \in free : x <= o})
       IN [m EXCEPT
             !.heap = [o \in ObjIds |->
                         IF o \in free /\ rank(o) <= Len(rows)
                         THEN RowToObject(rows[rank(o)], m.db[rows[rank(o)]])
                         ELSE m.heap[o]],
             !.tokens = SelectSeqOf(SortedSeq(free), {o \in free : rank(o) <= Len(rows)}),
             !.lastLoadTime = now]

\* Expiry without the 30 s margin of line 80
isExpired_noMargin(token) ==
  IF token.timestamp = 0 \/ token.expires_in = 0 THEN TRUE
  ELSE now >= token.timestamp + token.expires_in * 1000

isExpired(token) ==
  IF token.timestamp = 0 \/ token.expires_in = 0 THEN TRUE
  ELSE now >= token.timestamp + token.expires_in * 1000 - ExpiryMarginMs

saveToDatabase(m, o) ==
  LET token == m.heap[o]
  IN IF token.cred = 0 \/ ~dbUp THEN m
     ELSE [m EXCEPT !.db[token.cred] =
            [access_token |-> token.access_token,
             expires_in |-> token.expires_in,
             timestamp |-> token.timestamp,
             disabled_until |-> token.disabledUntil,
             quota_exhausted |-> IF token.quotaExhausted THEN 1 ELSE 0,
             total_cost |-> token.totalCost,
             daily_cost |-> token.dailyCost,
             last_reset_time |-> token.lastResetTime,
             total_requests |-> token.totalRequests,
             enabled |-> IF token.enable # FALSE THEN 1 ELSE 0]]

\* The comparison of line 185 turned round
isTokenDisabledByQuota_reversed(token) ==
  token.disabledUntil # 0 /\ now > token.disabledUntil

isTokenDisabledByQuota(token) ==
  token.disabledUntil # 0 /\ now < token.disabledUntil

\* A quarantine written to the store row only, the object left as it was
disableTokenUntil_storeOnly(m, o, resetTime) ==
  IF m.heap[o].cred = 0 \/ ~dbUp THEN m
  ELSE [m EXCEPT !.db[m.heap[o].cred].disabled_until = resetTime,
                 !.db[m.heap[o].cred].quota_exhausted = 1]

disableTokenUntil(m, o, resetTime) ==
  saveToDatabase(
    [m EXCEPT !.heap[o].disabledUntil = resetTime,
              !.heap[o].quotaExhausted = TRUE], o)

\* Without the forced reload of line 210
disableToken_noReload(m, o) ==
  saveToDatabase([m EXCEPT !.heap[o].enable = FALSE,
                           !.heap[o].disabledUntil = 0,
                           !.heap[o].quotaExhausted = FALSE], o)

disableToken(m, o) ==
  loadTokens(
    saveToDatabase(
      [m EXCEPT !.heap[o].enable = FALSE,
                !.heap[o].disabledUntil = 0,
                !.heap[o].quotaExhausted = FALSE], o),
    TRUE)

\* The filter of lines 416-418 left out
availableTokens_unfiltered(m) == m.tokens

\* this.tokens.filter(token => token.enable !== false && !this.isTokenDisabledByQuota(token))
availableTokens(m) ==
  SelectSeqOf(m.tokens,
    {o \in ObjIds : m.heap[o].enable # FALSE /\ ~isTokenDisabledByQuota(m.heap[o])})

\* A cursor that is never reset
advanceCursor_noWrap(i) == i + 1

\* this.currentTokenIndex++ and the reset above 10000
advanceCursor(i) == IF i + 1 > WrapBound THEN 0 ELSE i + 1

\* availableTokens[this.currentTokenIndex % availableTokens.length]
pickToken(avail, i) == avail[(i % Len(avail)) + 1]

\* recordUsage(token)
recordUsage(stats, c) == [stats EXCEPT ![c] = @ + 1]


\* The branch of line 274 left out
classify_no400(error) ==
  IF error.statusCode = 429 \/ Includes(error.message, "quota") THEN "quarantine"
  ELSE IF error.statusCode = 403 THEN "disable"
  ELSE "propagate"

\* An error without a status taken for quota exhaustion
classify_timeoutAsQuota(error) ==
  IF error.statusCode \in {0, 429} \/ Includes(error.message, "quota") THEN "quarantine"
  ELSE IF error.statusCode \in {403, 400} THEN "disable"
  ELSE "propagate"

\* Lines 248-283: which branch of handleRequestError an error takes
classify(error) ==
  IF error.statusCode = 429 \/ (error.message # <<>> /\ Includes(error.message, "quota"))
  THEN "quarantine"
  ELSE IF error.statusCode = 403 THEN "disable"
  ELSE IF error.statusCode = 400 THEN "disable"
  ELSE "propagate"

\* this.tokens.find(t => t.refresh_token === token.refresh_token); 0: undefined
findToken(m, c) ==
  IF \E i \in DOMAIN m.tokens : m.heap[m.tokens[i]].cred = c
  THEN m.tokens[CHOOSE i \in DOMAIN m.tokens :
                  /\ m.heap[m.tokens[i]].cred = c
                  /\ \A j \in DOMAIN m.tokens : m.heap[m.tokens[j]].cred = c => i <= j]
  ELSE 0

\* The daily reset of lines 311-315 left out
addUsage_noRollover(m, o, cost) ==
  LET found == findToken(m, m.heap[o].cred)
  IN IF found = 0 THEN m
     ELSE saveToDatabase(
            [m EXCEPT !.heap[found].totalRequests = @ + 1,
                      !.heap[found].totalCost = @ + cost,
                      !.heap[found].dailyCost = @ + cost], found)

\* The early return of lines 297-300 left out: a credential that is not
\* cached is charged on the object the caller passed
addUsage_chargeGiven(m, o, cost) ==
  LET cached == findToken(m, m.heap[o].cred)
      found == IF cached = 0 THEN o ELSE cached
      t == m.heap[found]
      rolled == DateString(now) # DateString(t.lastResetTime)
      u == [t EXCEPT
              !.totalRequests = @ + 1,
              !.lastResetTime = IF rolled THEN now ELSE @,
              !.totalCost = @ + cost,
              !.dailyCost = (IF rolled THEN 0 ELSE @) + cost]
  IN saveToDatabase([m EXCEPT !.heap[found] = u], found)

\* The charge of line 323 left out: the cost is added to the day's counter only
addUsage_dailyOnly(m, o, cost) ==
  LET found == findToken(m, m.heap[o].cred)
  IN IF found = 0 THEN m
     ELSE LET t == m.heap[found]
              rolled == DateString(now) # DateString(t.lastResetTime)
              u == [t EXCEPT
                      !.totalRequests = @ + 1,
                      !.lastResetTime = IF rolled THEN now ELSE @,
                      !.dailyCost = (IF rolled THEN 0 ELSE @) + cost]
          IN saveToDatabase([m EXCEPT !.heap[found] = u], found)

addUsage(m, o, cost) ==
  LET found == findToken(m, m.heap[o].cred)
  IN IF found = 0 THEN m
     ELSE LET t == m.heap[found]
              rolled == DateString(now) # DateString(t.lastResetTime)
              u == [t EXCEPT
                      !.totalRequests = @ + 1,
                      !.lastResetTime = IF rolled THEN now ELSE @,
                      !.totalCost = @ + cost,
                      !.dailyCost = (IF rolled THEN 0 ELSE @) + cost]
          IN saveToDatabase([m EXCEPT !.heap[found] = u], found)

\* Lines 119-125: the token endpoint answered 200 with a new token
\* A refresh that keeps the new token in memory only
refreshed_notSaved(m, o, lifetime) ==
  [m EXCEPT !.heap[o].access_token = now,
            !.heap[o].expires_in = lifetime,
            !.heap[o].timestamp = now]

refreshed(m, o, lifetime) ==
  saveToDatabase(
    [m EXCEPT !.heap[o].access_token = now,
              !.heap[o].expires_in = lifetime,
              !.heap[o].timestamp = now], o)

\* A sweep that lifts every quarantine, due or not
sweepRows_all(rows) ==
  [id \in Creds |->
     IF rows[id].disabled_until # 0
     THEN [rows[id] EXCEPT !.disabled_until = 0, !.quota_exhausted = 0]
     ELSE rows[id]]

\* The UPDATE of the quota sweep
sweepRows(rows) ==
  [id \in Creds |->
     IF rows[id].disabled_until # 0 /\ rows[id].disabled_until <= now
     THEN [rows[id] EXCEPT !.disabled_until = 0, !.quota_exhausted = 0]
     ELSE rows[id]]

-----------------------------------------------------------------------------
(* Steps.  An async call runs to its next await; `await this.loadTokens()`  *)
(* awaits a plain value, so only promise continuations that are already    *)
(* queued can run before the call goes on, while timers, network answers   *)
(* and the clock wait until no such continuation is pending.               *)

MacroTask == \A p \in Procs : pc[p] \notin {"gn_select", "ga_select"}

\* A new request is served by the first handler that is free (handlers are
\* interchangeable)
FreeHandler(p) == pc[p] = "idle" /\ \A q \in Procs : q < p => pc[q] # "idle"

Commit(m, hld) ==
  /\ db' = m.db
  /\ lastLoadTime' = m.lastLoadTime
  /\ LET live == LiveSeq(m.tokens, hld)
     IN /\ tokens' = [i \in 1..Len(m.tokens) |-> i]
        /\ held' = [p \in Procs |-> NewId(live, hld[p])]
        /\ heap' = [o \in ObjIds |-> IF o <= Len(live) THEN m.heap[live[o]] ELSE NoObj]
  /\ UNCHANGED shareVars

\* getNextToken(), line 409
GetNextLoad(p) ==
  /\ FreeHandler(p)
  /\ pc' = [pc EXCEPT ![p] = "gn_select"]
  /\ failed' = [failed EXCEPT ![p] = 0]
  /\ thrown' = NotThrown /\ swept' = FALSE
  /\ Commit(loadTokens(Mem, FALSE), held)
  /\ UNCHANGED <<now, dbUp, currentTokenIndex, usageStats>>

Throw(p, error) ==
  /\ pc' = [pc EXCEPT ![p] = "idle"]
  /\ thrown' = [p |-> p, error |-> error, failed |-> failed[p]]
  /\ swept' = FALSE
  /\ failed' = [failed EXCEPT ![p] = 0]
  /\ Commit(Mem, [held EXCEPT ![p] = 0])

\* getNextToken(), lines 411-444 up to the await of refreshToken
GetNextSelect(p) ==
  /\ pc[p] = "gn_select"
  /\ UNCHANGED <<now, dbUp>>
  /\ IF Len(tokens) = 0
     THEN Throw(p, NoTokens) /\ UNCHANGED <<currentTokenIndex, usageStats>>
     ELSE LET avail == availableTokens(Mem)
          IN IF Len(avail) = 0
             THEN Throw(p, NoEnabledTokens) /\ UNCHANGED <<currentTokenIndex, usageStats>>
             ELSE LET token == pickToken(avail, currentTokenIndex)
                  IN /\ currentTokenIndex' = advanceCursor(currentTokenIndex)
                     /\ Commit(Mem, [held EXCEPT ![p] = token])
                     /\ thrown' = NotThrown /\ swept' = FALSE
                     /\ UNCHANGED failed
                     /\ IF isExpired(heap[token])
                        THEN /\ pc' = [pc EXCEPT ![p] = "gn_fetch"]
                             /\ UNCHANGED usageStats
                        ELSE /\ pc' = [pc EXCEPT ![p] = "holding"]
                             /\ usageStats' = recordUsage(usageStats, heap[token].cred)

\* getAnyEnabledToken(), line 388
getAnyEnabledToken_load(p) ==
  /\ FreeHandler(p)
  /\ pc' = [pc EXCEPT ![p] = "ga_select"]
  /\ failed' = [failed EXCEPT ![p] = 0]
  /\ thrown' = NotThrown /\ swept' = FALSE
  /\ Commit(loadTokens(Mem, FALSE), held)
  /\ UNCHANGED <<now, dbUp, currentTokenIndex, usageStats>>
  /\ calls < MaxCalls
  /\ calls' = calls + 1
  /\ UNCHANGED <<rotation, quarantinedUntil, lastCharge>>

\* A lookup that takes its credential through the rotation, moving the cursor
getAnyEnabledToken_rotating(p) ==
  /\ pc[p] = "ga_select"
  /\ UNCHANGED <<now, dbUp, usageStats>>
  /\ LET avail == availableTokens(Mem)
     IN IF Len(avail) = 0
        THEN Throw(p, NoEnabledTokens) /\ UNCHANGED currentTokenIndex
        ELSE LET token == pickToken(avail, currentTokenIndex)
             IN /\ currentTokenIndex' = advanceCursor(currentTokenIndex)
                /\ Commit(Mem, [held EXCEPT ![p] = token])
                /\ thrown' = NotThrown /\ swept' = FALSE
                /\ UNCHANGED failed
                /\ pc' = [pc EXCEPT ![p] =
                            IF isExpired(heap[token]) THEN "ga_fetch" ELSE "any"]
  /\ UNCHANGED <<calls, rotation, quarantinedUntil, lastCharge>>

\* getAnyEnabledToken(), lines 391-401 up to the await of refreshToken
getAnyEnabledToken_select(p) ==
  /\ pc[p] = "ga_select"
  /\ UNCHANGED <<now, dbUp, currentTokenIndex, usageStats>>
  /\ LET avail == availableTokens(Mem)
     IN IF Len(avail) = 0
        THEN Throw(p, NoEnabledTokens)
        ELSE /\ Commit(Mem, [held EXCEPT ![p] = avail[1]])
             /\ thrown' = NotThrown /\ swept' = FALSE
             /\ UNCHANGED failed
             /\ pc' = [pc EXCEPT ![p] =
                         IF isExpired(heap[avail[1]]) THEN "ga_fetch" ELSE "any"]
  /\ UNCHANGED <<calls, rotation, quarantinedUntil, lastCharge>>

\* refreshToken(), lines 119-125, and the rest of the call that awaited it
refreshToken_ok(p, lifetime) ==
  /\ MacroTask
  /\ pc[p] \in {"gn_fetch", "ga_fetch"}
  /\ Commit(refreshed(Mem, held[p], lifetime), held)
  /\ pc' = [pc EXCEPT ![p] = IF pc[p] = "gn_fetch" THEN "holding" ELSE "any"]
  /\ usageStats' = IF pc[p] = "gn_fetch"
                   THEN recordUsage(usageStats, heap[held[p]].cred)
                   ELSE usageStats
  /\ UNCHANGED <<now, dbUp, currentTokenIndex, failed>>
  /\ thrown' = NotThrown /\ swept' = FALSE
  /\ UNCHANGED <<calls, rotation, quarantinedUntil, lastCharge>>

\* refreshToken(), line 127
refreshToken_fail(p, error) ==
  /\ MacroTask
  /\ pc[p] \in {"gn_fetch", "ga_fetch"}
  /\ Throw(p, error)
  /\ UNCHANGED <<now, dbUp, currentTokenIndex, usageStats>>
  /\ UNCHANGED <<calls, rotation, quarantinedUntil, lastCharge>>

\* The caller is done with the credential and records no usage
Release(p) ==
  /\ MacroTask
  /\ pc[p] \in {"any", "holding"}
  /\ failed' = [failed EXCEPT ![p] = 0]
  /\ pc' = [pc EXCEPT ![p] = "idle"]
  /\ Commit(Mem, [held EXCEPT ![p] = 0])
  /\ UNCHANGED <<now, dbUp, currentTokenIndex, usageStats>>
  /\ thrown' = NotThrown /\ swept' = FALSE

\* The upstream call succeeded: addUsage(token, cost)
upstream_ok(p, cost) ==
  /\ MacroTask
  /\ pc[p] = "holding"
  /\ pc' = [pc EXCEPT ![p] = "idle"]
  /\ failed' = [failed EXCEPT ![p] = 0]
  /\ Commit(addUsage(Mem, held[p], cost), [held EXCEPT ![p] = 0])
  /\ UNCHANGED <<now, dbUp, currentTokenIndex, usageStats>>
  /\ thrown' = NotThrown /\ swept' = FALSE
  /\ UNCHANGED <<calls, rotation, quarantinedUntil>>
  /\ lastCharge' =
       LET c == heap[held[p]].cred
           found == findToken(Mem, c)
       IN IF found = 0 THEN lastCharge
          ELSE [lastCharge EXCEPT ![c] =
                  [n |-> IF @.n < 2 THEN @.n + 1 ELSE 2,
                   cost |-> cost,
                   day |-> DateString(now),
                   before |-> heap[found]]]

\* handleRequestError(), lines 250-262, up to the first await of getNextToken()
handleRequestError_quota(p, error) ==
  /\ MacroTask
  /\ pc[p] = "holding"
  /\ classify(error) = "quarantine"
  /\ pc' = [pc EXCEPT ![p] = "gn_select"]
  /\ failed' = [failed EXCEPT ![p] = heap[held[p]].cred]
  /\ Commit(loadTokens(disableTokenUntil(Mem, held[p], NextUtcMidnight(now)), FALSE), held)
  /\ UNCHANGED <<now, dbUp, currentTokenIndex, usageStats>>
  /\ thrown' = NotThrown /\ swept' = FALSE
  /\ calls < MaxCalls
  /\ calls' = calls + 1
  /\ UNCHANGED <<rotation, lastCharge>>
  /\ quarantinedUntil' = [quarantinedUntil EXCEPT ![heap[held[p]].cred] = NextUtcMidnight(now)]

\* handleRequestError(), lines 265-280, up to the first await of getNextToken()
handleRequestError_denied(p, error) ==
  /\ MacroTask
  /\ pc[p] = "holding"
  /\ classify(error) = "disable"
  /\ pc' = [pc EXCEPT ![p] = "gn_select"]
  /\ failed' = [failed EXCEPT ![p] = heap[held[p]].cred]
  /\ Commit(loadTokens(disableToken(Mem, held[p]), FALSE), held)
  /\ UNCHANGED <<now, dbUp, currentTokenIndex, usageStats>>
  /\ thrown' = NotThrown /\ swept' = FALSE
  /\ calls < MaxCalls
  /\ calls' = calls + 1
  /\ UNCHANGED <<rotation, quarantinedUntil, lastCharge>>

\* handleRequestError(), line 282
handleRequestError_throw(p, error) ==
  /\ MacroTask
  /\ pc[p] = "holding"
  /\ classify(error) = "propagate"
  /\ Throw(p, error)
  /\ UNCHANGED <<now, dbUp, currentTokenIndex, usageStats>>
  /\ UNCHANGED <<calls, rotation, quarantinedUntil, lastCharge>>

\* handleRequestError(error, token) as a whole, lines 248-283
handleRequestError(p, error) ==
  \/ handleRequestError_quota(p, error)
  \/ handleRequestError_denied(p, error)
  \/ handleRequestError_throw(p, error)

\* The setInterval callback of startQuotaResetCheck()
quotaResetCheck ==
  /\ MacroTask
  /\ dbUp
  /\ LET restored == sweepRows(db)
         m == [Mem EXCEPT !.db = restored]
     IN Commit(IF restored # db THEN loadTokens(m, TRUE) ELSE m, held)
  /\ UNCHANGED <<now, dbUp, currentTokenIndex, usageStats, pc, failed>>
  /\ thrown' = NotThrown /\ swept' = TRUE
  /\ UNCHANGED <<calls, rotation, quarantinedUntil, lastCharge>>

\* toggleAccount(index, enable) of token_admin.js, on the row of credential c
toggleAccount(c, enable) ==
  /\ MacroTask
  /\ dbUp
  /\ Commit(loadTokens([Mem EXCEPT !.db[c].enabled = IF enable THEN 1 ELSE 0], TRUE), held)
  /\ UNCHANGED <<now, dbUp, currentTokenIndex, usageStats, pc, failed>>
  /\ thrown' = NotThrown /\ swept' = FALSE
  /\ UNCHANGED <<calls, rotation, quarantinedUntil, lastCharge>>

\* forceReload(), as the administrative handlers call it after a write that
\* changes none of the columns above
forceReload ==
  /\ MacroTask
  /\ Commit(loadTokens(Mem, TRUE), held)
  /\ UNCHANGED <<now, dbUp, currentTokenIndex, usageStats, pc, failed>>
  /\ thrown' = NotThrown /\ swept' = FALSE
  /\ UNCHANGED <<calls, rotation, quarantinedUntil, lastCharge>>

\* Date.now() moves on
Tick ==
  /\ MacroTask
  /\ \A q \in Borrowers : borrower[q].pc = "idle"
  /\ now < EndTime
  /\ now' = now + TickMs
  /\ UNCHANGED <<dbUp, db, heap, tokens, lastLoadTime, currentTokenIndex,
                 usageStats, pc, held, failed>>
  /\ UNCHANGED <<users, userTokens, share_bans, share_usage, share_blacklist, borrower>>
  /\ shareLog' = [shareLog EXCEPT !.result = NoResult]
  /\ thrown' = NotThrown /\ swept' = FALSE
  /\ UNCHANGED <<calls, rotation, quarantinedUntil, lastCharge>>

\* The store stops answering: every statement throws from now on
storeOutage ==
  /\ MacroTask
  /\ dbUp
  /\ dbUp' = FALSE
  /\ UNCHANGED <<now, db, heap, tokens, lastLoadTime, currentTokenIndex,
                 usageStats, pc, held, failed>>
  /\ UNCHANGED shareVars
  /\ thrown' = NotThrown /\ swept' = FALSE
  /\ UNCHANGED <<calls, rotation, quarantinedUntil, lastCharge>>

getNextToken_load(p) ==
  /\ GetNextLoad(p)
  /\ calls < MaxCalls
  /\ calls' = calls + 1
  /\ UNCHANGED <<rotation, quarantinedUntil, lastCharge>>

getNextToken_select(p) == GetNextSelect(p) /\ UNCHANGED <<calls, rotation, quarantinedUntil, lastCharge>>

release(p) == Release(p) /\ UNCHANGED <<calls, rotation, quarantinedUntil, lastCharge>>

-----------------------------------------------------------------------------
(* The sharing tables of user_manager.js and share_manager.js *)


\* Program constants of share_manager.js
USAGE_THRESHOLD == 50
RetentionDays == 30
\* BAN_DURATIONS, each entry in days: the entry times DayMs is the duration
BAN_DURATIONS == <<1, 3, 7, 14, 30, 90>>

\* No call of getRandomSharedToken() in flight
NoCall == [pc |-> "idle", callerId |-> 0,
           banStatus |-> [banned |-> FALSE, banUntil |-> 0, reason |-> "none",
                          remainingTime |-> 0],
           today |-> 0, tokens |-> <<>>, i |-> 0, isBlacklisted |-> FALSE,
           availableTokens |-> <<>>, selected |-> 0, avgUsage |-> 0]

\* No borrow granted yet against a credential
NoBorrows == [day |-> 0, n |-> 0]

\* The share_bans row of a user, if there is one
BanRows(bans, userId) == {ban \in bans : ban.user_id = userId}

\* No users' credentials shared, nobody borrowing: the pool alone
ShareIdle ==
  /\ users = [u \in Users |-> [enabled |-> 1]]
  /\ userTokens = [t \in UserTokenIds |->
                     [user_id |-> 1, enabled |-> 1, is_shared |-> 0, daily_limit |-> 1,
                      usage_today |-> 0, last_reset_date |-> 0]]
  /\ share_bans = {}
  /\ share_usage = {}
  /\ share_blacklist = {}
  /\ borrower = [q \in Borrowers |-> NoCall]
  /\ shareLog = [result |-> NoResult, borrows |-> [t \in UserTokenIds |-> NoBorrows],
                  bans |-> [u \in Users |-> Cardinality(BanRows(share_bans, u))]]

\* SELECT ... FROM google_tokens gt JOIN users u ON gt.user_id = u.id
\* WHERE gt.is_shared = 1 AND gt.enabled = 1 AND u.enabled = 1   (lines 905-910)
listedTokens(toks, usrs) ==
  SortedSeq({t \in UserTokenIds :
               /\ toks[t].is_shared = 1
               /\ toks[t].enabled = 1
               /\ usrs[toks[t].user_id].enabled = 1})

\* A query that leaves out the join condition on the owner
borrowableTokens_anyOwner(toks, usrs) ==
  SortedSeq({t \in UserTokenIds : toks[t].is_shared = 1 /\ toks[t].enabled = 1})

\* The same query, as getRandomSharedToken() writes it (lines 980-985)
borrowableTokens(toks, usrs) ==
  SortedSeq({t \in UserTokenIds :
               /\ toks[t].is_shared = 1
               /\ toks[t].enabled = 1
               /\ usrs[toks[t].user_id].enabled = 1})

\* A row as a JavaScript object the call keeps, with the id it was read from
SnapshotOf(toks, t) ==
  [id |-> t, user_id |-> toks[t].user_id, daily_limit |-> toks[t].daily_limit,
   usage_today |-> toks[t].usage_today, last_reset_date |-> toks[t].last_reset_date]

\* userTokens.findIndex(t => t.id === token.id) over the owner's rows ORDER BY id
tokenIndexOf(toks, t) ==
  Cardinality({x \in UserTokenIds : toks[x].user_id = toks[t].user_id /\ x < t})

\* A lookup that takes the owner's first credential for every credential
isUserBlacklisted_firstIndex(blacklist, ownerId, tokenIndex, userId) ==
  <<ownerId, 0, userId>> \in blacklist

\* isUserBlacklisted(ownerId, tokenIndex, userId)
isUserBlacklisted(blacklist, ownerId, tokenIndex, userId) ==
  <<ownerId, tokenIndex, userId>> \in blacklist

\* An expiry test on the wrong column: the time the ban was created
isUserBanned_byCreated(bans, userId) ==
  IF BanRows(bans, userId) = {}
  THEN [bans |-> bans, banned |-> FALSE, banUntil |-> 0, reason |-> "none", remainingTime |-> 0]
  ELSE LET ban == CHOOSE b \in BanRows(bans, userId) : TRUE
       IN IF ban.created # 0 /\ now > ban.created
          THEN [bans |-> bans \ {ban}, banned |-> FALSE, banUntil |-> 0,
                reason |-> "none", remainingTime |-> 0]
          ELSE [bans |-> bans, banned |-> TRUE, banUntil |-> ban.ban_until,
                reason |-> ban.reason, remainingTime |-> ban.ban_until - now]

\* A lookup that denies when the store fails: the catch branch answers banned
isUserBanned_denyOnError(bans, userId) ==
  IF ~dbUp
  THEN [bans |-> bans, banned |-> TRUE, banUntil |-> 0, reason |-> "none", remainingTime |-> 0]
  ELSE IF BanRows(bans, userId) = {}
  THEN [bans |-> bans, banned |-> FALSE, banUntil |-> 0, reason |-> "none", remainingTime |-> 0]
  ELSE LET ban == CHOOSE b \in BanRows(bans, userId) : TRUE
       IN IF ban.ban_until # 0 /\ now > ban.ban_until
          THEN [bans |-> bans \ {ban}, banned |-> FALSE, banUntil |-> 0,
                reason |-> "none", remainingTime |-> 0]
          ELSE [bans |-> bans, banned |-> TRUE, banUntil |-> ban.ban_until,
                reason |-> ban.reason, remainingTime |-> ban.ban_until - now]

\* isUserBanned(userId): what it returns, and the share_bans table it leaves;
\* a statement that throws is caught at lines 59-62
isUserBanned(bans, userId) ==
  IF ~dbUp
  THEN [bans |-> bans, banned |-> FALSE, banUntil |-> 0, reason |-> "none", remainingTime |-> 0]
  ELSE IF BanRows(bans, userId) = {}
  THEN [bans |-> bans, banned |-> FALSE, banUntil |-> 0, reason |-> "none", remainingTime |-> 0]
  ELSE LET ban == CHOOSE b \in BanRows(bans, userId) : TRUE
       IN IF ban.ban_until # 0 /\ now > ban.ban_until
          THEN [bans |-> bans \ {ban}, banned |-> FALSE, banUntil |-> 0,
                reason |-> "none", remainingTime |-> 0]
          ELSE [bans |-> bans, banned |-> TRUE, banUntil |-> ban.ban_until,
                reason |-> ban.reason, remainingTime |-> ban.ban_until - now]

\* row.banCount || 0 on a row of share_bans, whose columns are user_id,
\* ban_until, reason and created
banCountOf(row) == IF "banCount" \in DOMAIN row THEN row.banCount ELSE 0

Min(a, b) == IF a <= b THEN a ELSE b

\* banUserFromSharing(userId, reason): the share_bans table it leaves
banUserFromSharing(bans, userId, reason) ==
  LET existing == BanRows(bans, userId)
      banCount == IF existing # {}
                  THEN banCountOf(CHOOSE b \in existing : TRUE) + 1
                  ELSE 1
      durationIndex == Min(banCount - 1, Len(BAN_DURATIONS) - 1)
      duration == BAN_DURATIONS[durationIndex + 1] * DayMs
  IN (bans \ existing) \cup
       {[user_id |-> userId, ban_until |-> now + duration, reason |-> reason, created |-> now]}

\* unbanUser(userId)
unbanUser(bans, userId) == bans \ BanRows(bans, userId)

\* A share_usage row.  Its timestamp is kept as the day it falls on and the
\* millisecond within that day, so that a sample a month old is as exact as
\* one of today.
UsageRow(userId, timestamp) == <<userId, timestamp \div DayMs, timestamp % DayMs>>

\* timestamp < now - RetentionDays * DayMs, for the timestamp of a row
olderThanRetention(row) ==
  \/ row[2] < now \div DayMs - RetentionDays
  \/ row[2] = now \div DayMs - RetentionDays /\ row[3] < now % DayMs

\* recordShareUsage(userId): the share_usage table it leaves
recordShareUsage(usage, userId) ==
  {row \in usage \cup {UsageRow(userId, now)} : ~olderThanRetention(row)}

\* Math.round(total / days) for total >= 0 and days > 0
RoundedQuotient(total, days) == (2 * total + days) \div (2 * days)

\* getUserAverageUsage(userId)
getUserAverageUsage(usage, userId) ==
  LET records == {row \in usage : row[1] = userId}
      days == {row[2] : row \in records}
  IN IF records = {} THEN 0
     ELSE RoundedQuotient(Cardinality(records), Cardinality(days))

\* checkAndBanAbuser(userId), once the average is known
checkAndBanAbuser(bans, userId, avgUsage) ==
  IF avgUsage > USAGE_THRESHOLD
  THEN banUserFromSharing(bans, userId, "average usage too high")
  ELSE bans

\* A limit bounded from above only
clampLimit_upperOnly(dailyLimit) == Min(MaxDailyLimit, dailyLimit)

\* Math.max(1, Math.min(10000, parseInt(dailyLimit)))
clampLimit(dailyLimit) ==
  IF dailyLimit < 1 THEN 1 ELSE IF dailyLimit > MaxDailyLimit THEN MaxDailyLimit ELSE dailyLimit

-----------------------------------------------------------------------------
(* The state after `new TokenManager()` *)

\* A row as the authorization flow or an import left it: never quarantined,
\* never charged; its access token either never issued (timestamp 0) or
\* issued at start-up with the long lifetime.
InitRow(fresh, enabled) ==
  [access_token |-> IF fresh THEN StartTime ELSE 0,
   expires_in |-> IF fresh THEN 3599 ELSE 0,
   timestamp |-> IF fresh THEN StartTime ELSE 0,
   disabled_until |-> 0, quota_exhausted |-> 0,
   total_cost |-> 0, daily_cost |-> 0, last_reset_time |-> 0, total_requests |-> 0,
   enabled |-> IF enabled THEN 1 ELSE 0]

InitPool(rows, cursor) ==
  /\ now = StartTime
  /\ dbUp = TRUE
  /\ db = rows
  /\ LET m == [db |-> rows, heap |-> [o \in ObjIds |-> NoObj], tokens |-> <<>>,
               lastLoadTime |-> 0]
         enabledRows == SortedSeq({id \in Creds : rows[id].enabled = 1})
     IN /\ tokens = [i \in 1..Len(enabledRows) |-> i]
        /\ heap = [o \in ObjIds |->
                     IF o <= Len(enabledRows)
                     THEN RowToObject(enabledRows[o], rows[enabledRows[o]])
                     ELSE NoObj]
  /\ lastLoadTime = StartTime
  /\ currentTokenIndex = cursor
  /\ usageStats = [c \in Creds |-> 0]
  /\ pc = [p \in Procs |-> "idle"]
  /\ held = [p \in Procs |-> 0]
  /\ failed = [p \in Procs |-> 0]
  /\ thrown = NotThrown
  /\ swept = FALSE
  /\ quarantinedUntil = [c \in Creds |-> 0]
  /\ calls = 0
  /\ rotation = <<>>
  /\ lastCharge = [c \in Creds |-> NoCharge]

InitWith(rows, cursor) == InitPool(rows, cursor) /\ ShareIdle

\* Credential 1 has never been refreshed, the others hold a fresh token; the
\* administrator left enabled either every credential or only credential 1.
Init ==
  \E on \in {Creds, {1}} :
    InitWith([id \in Creds |-> InitRow(id # 1, id \in on)], 0)

Next ==
  \/ \E p \in Procs : getNextToken_load(p)
  \/ \E p \in Procs : getNextToken_select(p)
  \/ \E p \in Procs : getAnyEnabledToken_load(p)
  \/ \E p \in Procs : getAnyEnabledToken_select(p)
  \/ \E p \in Procs, lifetime \in Lifetimes : refreshToken_ok(p, lifetime)
  \/ \E p \in Procs : refreshToken_fail(p, RefreshDenied)
  \/ \E p \in Procs : release(p)
  \/ \E p \in Procs, error \in Errors : handleRequestError_quota(p, error)
  \/ \E p \in Procs, error \in Errors : handleRequestError_denied(p, error)
  \/ \E p \in Procs, error \in Errors : handleRequestError_throw(p, error)
  \/ quotaResetCheck
  \/ forceReload
  \/ Tick

Spec == Init /\ [][Next]_vars

\* The same program with a store that may fail
NextFault ==
  \/ Next
  \/ storeOutage

SpecFault == Init /\ [][NextFault]_vars

-----------------------------------------------------------------------------
(* Rotation: getNextToken() called over and over on a pool whose health    *)
(* and cached set do not change.  The cursor starts at 0, as after         *)
(* construction, or at one of the last values before the reset, as after   *)
(* that many earlier selections; all access tokens are fresh.              *)

CursorStarts == {0} \cup ((WrapBound - 2 * NCreds)..WrapBound)

InitRotation ==
  \E on \in SUBSET Creds, cursor \in CursorStarts :
    /\ on # {}
    /\ InitWith([id \in Creds |-> InitRow(TRUE, id \in on)], cursor)

rotation_load(p) ==
  /\ GetNextLoad(p)
  /\ calls < 2 * NCreds
  /\ calls' = calls + 1
  /\ UNCHANGED <<rotation, quarantinedUntil, lastCharge>>

rotation_select(p) ==
  /\ GetNextSelect(p)
  /\ rotation' = IF pc'[p] = "holding"
                 THEN Append(rotation, heap'[held'[p]].cred)
                 ELSE rotation
  /\ UNCHANGED <<calls, quarantinedUntil, lastCharge>>

rotation_release(p) == Release(p) /\ UNCHANGED <<calls, rotation, quarantinedUntil, lastCharge>>

NextRotation ==
  \/ \E p \in Procs : rotation_load(p)
  \/ \E p \in Procs : rotation_select(p)
  \/ \E p \in Procs : rotation_release(p)

SpecRotation == InitRotation /\ [][NextRotation]_vars

\* The credentials selection chooses from, in array order
EligibleCreds == [i \in DOMAIN availableTokens(Mem) |-> heap[availableTokens(Mem)[i]].cred]

\* C2: with N eligible credentials, any N consecutive getNextToken() calls
\* return each eligible credential exactly once, and each call returns the
\* credential returned N calls before it (the rotation order is stable),
\* whatever value the cursor started from.
C2_RotationStable ==
  LET n == Len(EligibleCreds)
  IN /\ \A i \in DOMAIN rotation :
          i + n - 1 <= Len(rotation) =>
            {rotation[j] : j \in i..(i + n - 1)} = Range(EligibleCreds)
     /\ \A i \in DOMAIN rotation :
          i + n <= Len(rotation) => rotation[i + n] = rotation[i]

-----------------------------------------------------------------------------
(* Claims about selection *)

\* Handler p's getNextToken() or getAnyEnabledToken() selects a credential in this step
Selects(p) ==
  /\ pc[p] \in {"gn_select", "ga_select"}
  /\ pc'[p] \in {"gn_fetch", "ga_fetch", "holding", "any"}

\* C1: the credential a selection returns is, in the state it is selected
\* in, a cached credential that is enabled and whose disabledUntil is unset
\* or not after the current time; and every cached credential that is
\* enabled with disabledUntil unset or in the past is in the eligible set
\* the selection chooses from.
C1_SelectionEligible ==
  [][\A p \in Procs :
       Selects(p) =>
         /\ held'[p] \in Range(tokens)
         /\ heap[held'[p]].enable = TRUE
         /\ (heap[held'[p]].disabledUntil = 0 \/ heap[held'[p]].disabledUntil <= now)
         /\ \A o \in Range(tokens) :
              (heap[o].enable = TRUE /\ (heap[o].disabledUntil = 0 \/ heap[o].disabledUntil < now))
                => o \in Range(availableTokens(Mem))]_vars

\* A selection made while another cached credential was quarantined
C1_Witness ==
  \E p \in Procs :
    /\ pc[p] = "holding"
    /\ \E o \in Range(tokens) :
         /\ heap[o].cred # heap[held[p]].cred
         /\ heap[o].disabledUntil > now
         /\ usageStats[heap[held[p]].cred] > 0
         /\ failed[p] = heap[o].cred


\* C3: once disableTokenUntil(c, t) has been applied to a credential that
\* getNextToken() returned, no selection by getNextToken() or
\* getAnyEnabledToken() returns c while the clock is before t, whatever
\* reloads of the cached set happened between the selection of c and the
\* call of disableTokenUntil.
C3_QuarantinedNotSelected ==
  [][\A p \in Procs :
       Selects(p) => ~(now < quarantinedUntil[heap'[held'[p]].cred])]_vars

\* C6: a handler whose handleRequestError() classified the error as quota
\* exhaustion or access loss on credential c is never handed c back by the
\* getNextToken() the classifier ends with: it gets another credential, or
\* the pool-exhausted error.
C6_ReplacementDiffers ==
  \A p \in Procs :
    (pc[p] \in {"gn_fetch", "holding"} /\ failed[p] # 0)
      => heap[held[p]].cred # failed[p]


-----------------------------------------------------------------------------
(* Claims about failures *)

\* Eligibility as the specification words it, on the cached objects
Eligible(token) ==
  token.enable = TRUE /\ (token.disabledUntil = 0 \/ token.disabledUntil <= now)

\* C5: when no cached credential is eligible (none cached, all disabled or
\* quarantined, or the load from the store failed), getNextToken() fails with
\* 'No tokens available.' or 'No enabled tokens available.' and nothing else,
\* returns no credential, and neither advances the cursor nor records usage
\* (the modulo of line 425 is then never evaluated: its evaluation on a
\* divisor of zero would stop the run).
C5_EmptyPoolExhausted ==
  [][\A p \in Procs :
       (/\ pc[p] = "gn_select"
        /\ pc'[p] # "gn_select"
        /\ \A o \in Range(tokens) : ~Eligible(heap[o]))
         => /\ pc'[p] = "idle"
            /\ held'[p] = 0
            /\ thrown'.p = p
            /\ thrown'.error = (IF tokens = <<>> THEN NoTokens ELSE NoEnabledTokens)
            /\ currentTokenIndex' = currentTokenIndex
            /\ usageStats' = usageStats]_vars

\* getNextToken() has just failed on a pool the store could not load
C5_Witness ==
  /\ ~dbUp
  /\ tokens = <<>>
  /\ thrown.p # 0
  /\ thrown.error = NoTokens

\* The caller of handler p, holding a credential, hands it on or gives it up:
\* every step of handleRequestError is such a step
LeavesHolding(p) == pc[p] = "holding" /\ pc'[p] # "holding"

QuotaError(error) == error.statusCode = 429 \/ Includes(error.message, "quota")

\* C7: for every error with status 429 or with a message that indicates
\* quota, handleRequestError marks the credential quotaExhausted, sets its
\* disabledUntil to the earliest UTC midnight strictly after the current time
\* (0 < disabledUntil - now <= 24 h) in memory and in the store, and leaves
\* its enabled flag as it was.
C7_QuotaQuarantines ==
  [][\A p \in Procs, error \in Errors :
       (LeavesHolding(p) /\ QuotaError(error) /\ handleRequestError(p, error))
         => /\ pc'[p] = "gn_select"
            /\ held'[p] # 0
            /\ LET before == heap[held[p]]
                   after == heap'[held'[p]]
               IN /\ after.cred = before.cred
                  /\ after.quotaExhausted = TRUE
                  /\ after.disabledUntil % DayMs = 0
                  /\ 0 < after.disabledUntil - now
                  /\ after.disabledUntil - now <= DayMs
                  /\ after.enable = before.enable
                  /\ db'[before.cred].disabled_until = after.disabledUntil
                  /\ db'[before.cred].quota_exhausted = 1]_vars

\* A credential quarantined at midnight sharp, for the whole day that starts
C7_Witness ==
  \E p \in Procs :
    /\ pc[p] = "gn_select"
    /\ held[p] # 0
    /\ heap[held[p]].cred = failed[p]
    /\ heap[held[p]].quotaExhausted
    /\ heap[held[p]].enable = TRUE
    /\ now % DayMs = 0
    /\ heap[held[p]].disabledUntil = now + DayMs

\* What handleRequestError leaves of a credential it disabled for good
Disabled(p) ==
  /\ pc'[p] = "gn_select"
  /\ held'[p] # 0
  /\ heap'[held'[p]].cred = heap[held[p]].cred
  /\ heap'[held'[p]].enable = FALSE
  /\ heap'[held'[p]].disabledUntil = 0
  /\ heap'[held'[p]].quotaExhausted = FALSE
  /\ db'[heap[held[p]].cred].enabled = 0

\* C8, as the claim words it: for every error with status 403 or 400,
\* whatever its message, handleRequestError disables the credential for good
\* (enabled cleared in memory and in the store) and does not quarantine it.
C8_AccessLossDisables_AnyMessage ==
  [][\A p \in Procs, error \in Errors :
       (/\ LeavesHolding(p)
        /\ error.statusCode \in {403, 400}
        /\ handleRequestError(p, error))
         => Disabled(p)]_vars

\* C8, amended: for every error with status 403 or 400 whose message does
\* not indicate quota, handleRequestError disables the credential for good
\* (enabled cleared in memory and in the store) and does not quarantine it.
C8_AccessLossDisables ==
  [][\A p \in Procs, error \in Errors :
       (/\ LeavesHolding(p)
        /\ error.statusCode \in {403, 400}
        /\ ~Includes(error.message, "quota")
        /\ handleRequestError(p, error))
         => Disabled(p)]_vars

\* A handler about to fail over from a credential it has just disabled
C8_Witness ==
  \E p \in Procs :
    /\ pc[p] = "gn_select"
    /\ held[p] # 0
    /\ heap[held[p]].cred = failed[p]
    /\ heap[held[p]].enable = FALSE
    /\ db[failed[p]].enabled = 0

\* The cached objects, in order
Cached == [i \in DOMAIN tokens |-> heap[tokens[i]]]

\* C9: for every error whose status is none of 429, 403, 400 and whose
\* message does not indicate quota (a timeout, which has no status,
\* included), handleRequestError throws that very error and changes neither
\* the cached credentials, nor the cursor, nor the store, nor the usage
\* counts, nor the time of the last load.
C9_OtherErrorsPropagate ==
  [][\A p \in Procs, error \in Errors :
       (/\ LeavesHolding(p)
        /\ error.statusCode \notin {429, 403, 400}
        /\ ~Includes(error.message, "quota")
        /\ handleRequestError(p, error))
         => /\ pc'[p] = "idle"
            /\ thrown'.p = p
            /\ thrown'.error = error
            /\ Cached' = Cached
            /\ \A q \in Procs \ {p} :
                 held[q] # 0 => held'[q] # 0 /\ heap'[held'[q]] = heap[held[q]]
            /\ db' = db
            /\ currentTokenIndex' = currentTokenIndex
            /\ usageStats' = usageStats
            /\ lastLoadTime' = lastLoadTime]_vars

\* A timeout has just been thrown back to the caller of handleRequestError
C9_Witness ==
  /\ thrown.p # 0
  /\ thrown.failed = 0
  /\ thrown.error.statusCode = 0
  /\ thrown.error.message = <<>>
  /\ usageStats[1] > 0

\* C10: when disableToken(c) has returned, the store row of c has enabled 0,
\* disabled_until NULL and quota_exhausted 0, and no cached object is c's, so
\* that the selection that follows cannot return c.
C10_DisableTokenPost ==
  [][\A p \in Procs, error \in Errors :
       (LeavesHolding(p) /\ handleRequestError_denied(p, error))
         => LET c == heap[held[p]].cred
            IN /\ db'[c].enabled = 0
               /\ db'[c].disabled_until = 0
               /\ db'[c].quota_exhausted = 0
               /\ \A o \in Range(tokens') : heap'[o].cred # c
               /\ \A o \in Range(availableTokens([Mem EXCEPT !.heap = heap', !.tokens = tokens'])) :
                    heap'[o].cred # c]_vars

\* disableToken(c) has returned and c is gone from the store's enabled rows
\* and from the cached set, where another credential is left
C10_Witness ==
  \E p \in Procs :
    /\ pc[p] = "gn_select"
    /\ failed[p] # 0
    /\ db[failed[p]].enabled = 0
    /\ db[failed[p]].disabled_until = 0
    /\ tokens # <<>>
    /\ \A o \in Range(tokens) : heap[o].cred # failed[p]


-----------------------------------------------------------------------------
(* Claims about the quota-reset sweep *)

\* C4: an enabled credential that was quarantined until t is, once the clock
\* has passed t and the quota-reset sweep has run, in the cached set with
\* disabledUntil unset and quotaExhausted false, in the store and in memory.
C4_SweepRestores ==
  swept =>
    \A c \in Creds :
      (db[c].enabled = 1 /\ quarantinedUntil[c] # 0 /\ quarantinedUntil[c] < now)
        => /\ db[c].disabled_until = 0
           /\ db[c].quota_exhausted = 0
           /\ \E o \in Range(tokens) : heap[o].cred = c
           /\ \A o \in Range(tokens) :
                heap[o].cred = c
                  => heap[o].disabledUntil = 0 /\ heap[o].quotaExhausted = FALSE


-----------------------------------------------------------------------------
(* Usage accounting: handlers obtain credentials and report the cost of
   their requests, while the clock passes midnight and the cache expires *)

\* Every credential holds a fresh token; the administrator left enabled
\* either every credential or only credential 1.
InitUsage ==
  \E on \in {Creds, {1}} :
    InitWith([id \in Creds |-> InitRow(TRUE, id \in on)], 0)

usage_load(p) ==
  /\ GetNextLoad(p)
  /\ calls < MaxCharges
  /\ calls' = calls + 1
  /\ UNCHANGED <<rotation, quarantinedUntil, lastCharge>>

NextUsage ==
  \/ \E p \in Procs : usage_load(p)
  \/ \E p \in Procs : getNextToken_select(p)
  \/ \E p \in Procs, cost \in Costs : upstream_ok(p, cost)
  \/ Tick

SpecUsage == InitUsage /\ [][NextUsage]_vars

\* The usage fields of a credential object or of a store row
UsageOfObject(t) ==
  [totalCost |-> t.totalCost, dailyCost |-> t.dailyCost,
   totalRequests |-> t.totalRequests, lastResetDay |-> DateString(t.lastResetTime)]

UsageOfRow(row) ==
  [totalCost |-> row.total_cost, dailyCost |-> row.daily_cost,
   totalRequests |-> row.total_requests, lastResetDay |-> DateString(row.last_reset_time)]

\* The second of two addUsage() calls on credential c is this step
SecondCharge(c) == lastCharge[c].n >= 1 /\ lastCharge'[c] # lastCharge[c]

-----------------------------------------------------------------------------
(* Borrowing shared credentials: user_manager.js and share_manager.js.      *)
(*                                                                          *)
(* Every function here is `async` over a synchronous store, so a call runs  *)
(* up to its next `await` in one step and its continuation is a microtask.  *)
(* Calls begun in the same turn of the event loop overlap at those awaits;  *)
(* anything begun by a later turn finds every earlier call finished.        *)

\* Nothing but the sharing tables changes
poolUnchanged ==
  UNCHANGED <<now, dbUp, db, heap, tokens, lastLoadTime, currentTokenIndex, usageStats,
              pc, held, failed, thrown, swept, quarantinedUntil, rotation, lastCharge>>

\* No call is waiting at an await
ShareMacroTask == \A q \in Borrowers : borrower[q].pc = "idle"

\* Every call in flight was begun in this turn and has not resumed yet
SameTurn == \A q \in Borrowers : borrower[q].pc \in {"idle", "ban_awaited"}

\* Which free slot a new call takes does not matter: it takes the first
FreeBorrower(q) == \A r \in Borrowers : r < q => borrower[r].pc # "idle"

Returned(callerId, value, token) ==
  [NoResult EXCEPT !.op = "getRandomSharedToken", !.callerId = callerId,
                   !.value = value, !.token = token]

\* One more borrow granted today against credential t
Granted(borrows, t, today) ==
  [borrows EXCEPT ![t] = IF @.day = today THEN [@ EXCEPT !.n = @ + 1]
                         ELSE [day |-> today, n |-> 1]]

\* getRandomSharedToken(callerId), lines 962-966: up to `await isUserBanned`
getRandomSharedToken_call(q, callerId) ==
  /\ borrower[q].pc = "idle"
  /\ FreeBorrower(q)
  /\ SameTurn
  /\ calls < MaxBorrows
  /\ calls' = calls + 1
  /\ LET banStatus == isUserBanned(share_bans, callerId)
     IN /\ share_bans' = banStatus.bans
        /\ borrower' = [borrower EXCEPT ![q] =
              [NoCall EXCEPT !.pc = "ban_awaited", !.callerId = callerId,
                             !.banStatus = [banned |-> banStatus.banned,
                                            banUntil |-> banStatus.banUntil,
                                            reason |-> banStatus.reason,
                                            remainingTime |-> banStatus.remainingTime]]]
  /\ shareLog' = [shareLog EXCEPT !.result = NoResult]
  /\ UNCHANGED <<users, userTokens, share_usage, share_blacklist>>
  /\ poolUnchanged

\* lines 967-976: the caller is banned
getRandomSharedToken_banned(q) ==
  /\ borrower[q].pc = "ban_awaited"
  /\ borrower[q].banStatus.banned
  /\ borrower' = [borrower EXCEPT ![q] = NoCall]
  /\ shareLog' = [shareLog EXCEPT !.result =
        [NoResult EXCEPT !.op = "getRandomSharedToken",
                         !.callerId = borrower[q].callerId,
                         !.value = "banned",
                         !.banUntil = borrower[q].banStatus.banUntil,
                         !.remainingTime = borrower[q].banStatus.remainingTime,
                         !.reason = borrower[q].banStatus.reason]]
  /\ UNCHANGED <<users, userTokens, share_bans, share_usage, share_blacklist, calls>>
  /\ poolUnchanged

\* The loop of lines 990-1016 from its i-th credential on, up to the next
\* `await`, and lines 1018-1033 once the loop is over; toks is the
\* google_tokens table as the call has left it so far
ScanFrom(q, c, toks) ==
  IF c.i <= Len(c.tokens)
  THEN LET token == c.tokens[c.i]
           tokenIndex == tokenIndexOf(toks, token.id)
       IN /\ borrower' = [borrower EXCEPT ![q] =
                [c EXCEPT !.pc = "blacklist_awaited",
                          !.isBlacklisted =
                             isUserBlacklisted(share_blacklist, token.user_id,
                                               tokenIndex, c.callerId)]]
          /\ userTokens' = toks
          /\ shareLog' = [shareLog EXCEPT !.result = NoResult]
          /\ UNCHANGED share_usage
  ELSE IF c.availableTokens = <<>>
  THEN /\ borrower' = [borrower EXCEPT ![q] = NoCall]
       /\ userTokens' = toks
       /\ shareLog' = [shareLog EXCEPT !.result = Returned(c.callerId, "null", 0)]
       /\ UNCHANGED share_usage
  ELSE \E randomIndex \in 1..Len(c.availableTokens) :
         LET selected == c.availableTokens[randomIndex]
         IN /\ userTokens' = [toks EXCEPT ![selected.id].usage_today = @ + 1]
            /\ share_usage' = recordShareUsage(share_usage, c.callerId)
            /\ borrower' = [borrower EXCEPT ![q] =
                  [c EXCEPT !.pc = "usage_awaited", !.selected = selected.id]]
            /\ shareLog' = [shareLog EXCEPT
                  !.result = NoResult,
                  !.borrows = Granted(shareLog.borrows, selected.id, c.today)]

\* lines 979-998: not banned; read the candidates and enter the loop
getRandomSharedToken_query(q) ==
  /\ borrower[q].pc = "ban_awaited"
  /\ ~borrower[q].banStatus.banned
  /\ IF dbUp
     THEN LET rows == borrowableTokens(userTokens, users)
              c == [borrower[q] EXCEPT
                      !.today = DateString(now),
                      !.tokens = [k \in 1..Len(rows) |-> SnapshotOf(userTokens, rows[k])],
                      !.i = 1]
          IN ScanFrom(q, c, userTokens)
     \* the query of lines 980-985 throws: the catch of lines 1052-1055 returns null
     ELSE /\ borrower' = [borrower EXCEPT ![q] = NoCall]
          /\ shareLog' = [shareLog EXCEPT
                !.result = Returned(borrower[q].callerId, "null", 0)]
          /\ UNCHANGED <<userTokens, share_usage>>
  /\ UNCHANGED <<users, share_bans, share_blacklist, calls>>
  /\ poolUnchanged

\* lines 999-1015 for the credential whose blacklist was just read, then on
getRandomSharedToken_scan(q) ==
  /\ borrower[q].pc = "blacklist_awaited"
  /\ LET c == borrower[q]
         token == c.tokens[c.i]
         stale == token.last_reset_date # c.today
         reset == [token EXCEPT !.usage_today = 0, !.last_reset_date = c.today]
         seen == IF stale THEN reset ELSE token
         toks == IF ~c.isBlacklisted /\ stale
                 THEN [userTokens EXCEPT ![token.id].usage_today = 0,
                                         ![token.id].last_reset_date = c.today]
                 ELSE userTokens
         available == IF ~c.isBlacklisted /\ seen.usage_today < seen.daily_limit
                      THEN Append(c.availableTokens, seen)
                      ELSE c.availableTokens
     IN ScanFrom(q, [c EXCEPT !.i = @ + 1, !.availableTokens = available], toks)
  /\ UNCHANGED <<users, share_bans, share_blacklist, calls>>
  /\ poolUnchanged

\* lines 1035-1051: start the abuse check without waiting for it, and return
getRandomSharedToken_return(q) ==
  /\ borrower[q].pc = "usage_awaited"
  /\ borrower' = [borrower EXCEPT ![q] =
        [NoCall EXCEPT !.pc = "average_awaited", !.callerId = borrower[q].callerId,
                       !.avgUsage = getUserAverageUsage(share_usage, borrower[q].callerId)]]
  /\ shareLog' = [shareLog EXCEPT !.result =
        Returned(borrower[q].callerId, "token", borrower[q].selected)]
  /\ UNCHANGED <<users, userTokens, share_bans, share_usage, share_blacklist, calls>>
  /\ poolUnchanged

\* checkAndBanAbuser(callerId), lines 196-205 of share_manager.js
checkAndBanAbuser_resume(q) ==
  /\ borrower[q].pc = "average_awaited"
  /\ share_bans' = checkAndBanAbuser(share_bans, borrower[q].callerId, borrower[q].avgUsage)
  /\ borrower' = [borrower EXCEPT ![q] = NoCall]
  /\ shareLog' = [shareLog EXCEPT
        !.result = NoResult,
        !.bans[borrower[q].callerId] =
           IF borrower[q].avgUsage > USAGE_THRESHOLD THEN @ + 1 ELSE @]
  /\ UNCHANGED <<users, userTokens, share_usage, share_blacklist, calls>>
  /\ poolUnchanged

\* What the caller may pass as sharingSettings.dailyLimit
DailyLimits == {0, 2}

\* updateTokenSharing(userId, tokenIndex, {isShared, dailyLimit})
updateTokenSharing(userId, tokenIndex, isShared, dailyLimit) ==
  /\ ShareMacroTask
  /\ LET owned == SortedSeq({t \in UserTokenIds : userTokens[t].user_id = userId})
         called == [NoResult EXCEPT !.op = "updateTokenSharing", !.callerId = userId,
                                    !.tokenIndex = tokenIndex, !.isShared = isShared,
                                    !.dailyLimit = dailyLimit]
     IN IF tokenIndex < 0 \/ tokenIndex >= Len(owned)
        THEN /\ UNCHANGED userTokens
             /\ shareLog' = [shareLog EXCEPT !.result =
                   [called EXCEPT !.value = "error", !.reason = "Token not found"]]
        ELSE /\ userTokens' = [userTokens EXCEPT
                   ![owned[tokenIndex + 1]] =
                      [@ EXCEPT !.is_shared = IF isShared THEN 1 ELSE 0,
                                !.daily_limit = clampLimit(dailyLimit)]]
             /\ shareLog' = [shareLog EXCEPT !.result =
                   [called EXCEPT !.value = "success", !.token = owned[tokenIndex + 1]]]
  /\ UNCHANGED <<users, share_bans, share_usage, share_blacklist, borrower, calls>>
  /\ poolUnchanged

\* One entry of the list getAllSharedTokens() returns
ListedAs(token) ==
  [id |-> token.id, dailyLimit |-> token.daily_limit, usageToday |-> token.usage_today,
   remainingToday |-> token.daily_limit - token.usage_today]

\* getAllSharedTokens()
getAllSharedTokens ==
  /\ ShareMacroTask
  /\ LET today == DateString(now)
         rows == listedTokens(userTokens, users)
         fresh(t) == IF userTokens[t].last_reset_date # today
                     THEN [userTokens[t] EXCEPT !.usage_today = 0, !.last_reset_date = today]
                     ELSE userTokens[t]
         listed == {rows[k] : k \in 1..Len(rows)}
         toks == [t \in UserTokenIds |-> IF t \in listed THEN fresh(t) ELSE userTokens[t]]
     IN /\ userTokens' = toks
        /\ shareLog' = [shareLog EXCEPT !.result =
              [NoResult EXCEPT !.op = "getAllSharedTokens",
                               !.list = [k \in 1..Len(rows) |->
                                           ListedAs(SnapshotOf(toks, rows[k]))]]]
  /\ UNCHANGED <<users, share_bans, share_usage, share_blacklist, borrower, calls>>
  /\ poolUnchanged

\* addToTokenBlacklist(ownerId, tokenIndex, targetUserId)
addToTokenBlacklist(ownerId, tokenIndex, targetUserId) ==
  /\ ShareMacroTask
  /\ share_blacklist' = share_blacklist \cup {<<ownerId, tokenIndex, targetUserId>>}
  /\ shareLog' = [shareLog EXCEPT !.result = NoResult]
  /\ UNCHANGED <<users, userTokens, share_bans, share_usage, borrower, calls>>
  /\ poolUnchanged

\* removeFromTokenBlacklist(ownerId, tokenIndex, targetUserId)
removeFromTokenBlacklist(ownerId, tokenIndex, targetUserId) ==
  /\ ShareMacroTask
  /\ share_blacklist' = share_blacklist \ {<<ownerId, tokenIndex, targetUserId>>}
  /\ shareLog' = [shareLog EXCEPT !.result = NoResult]
  /\ UNCHANGED <<users, userTokens, share_bans, share_usage, borrower, calls>>
  /\ poolUnchanged

\* unbanUser(userId), called by an administrator
unbanUser_call(userId) ==
  /\ ShareMacroTask
  /\ share_bans' = unbanUser(share_bans, userId)
  /\ shareLog' = [shareLog EXCEPT !.result = NoResult]
  /\ UNCHANGED <<users, userTokens, share_usage, share_blacklist, borrower, calls>>
  /\ poolUnchanged

\* Credentials 1 and 2 belong to user 1; user 2 borrows.  The owner may be
\* disabled, credential 1 may be private, credential 2 may be disabled, and
\* user 2 may be under a ban that ends at the next tick of the clock.
InitShare ==
  /\ InitPool([id \in Creds |-> InitRow(TRUE, TRUE)], 0)
  /\ \E ownerEnabled \in {0, 1}, shared1 \in {0, 1}, enabled2 \in {0, 1} :
       /\ users = [u \in Users |-> [enabled |-> IF u = 1 THEN ownerEnabled ELSE 1]]
       /\ userTokens = [t \in UserTokenIds |->
            [user_id |-> 1,
             enabled |-> IF t = 2 THEN enabled2 ELSE 1,
             is_shared |-> IF t = 1 THEN shared1 ELSE 1,
             daily_limit |-> 1, usage_today |-> 0, last_reset_date |-> 0]]
  /\ share_bans \in {{}, {[user_id |-> 2, ban_until |-> StartTime + TickMs,
                          reason |-> "abuse", created |-> StartTime - DayMs + TickMs]}}
  /\ share_usage = {}
  /\ share_blacklist = {}
  /\ borrower = [q \in Borrowers |-> NoCall]
  /\ shareLog = [result |-> NoResult, borrows |-> [t \in UserTokenIds |-> NoBorrows],
                  bans |-> [u \in Users |-> Cardinality(BanRows(share_bans, u))]]

NextShare ==
  \/ \E q \in Borrowers : getRandomSharedToken_call(q, 2)
  \/ \E q \in Borrowers : getRandomSharedToken_banned(q)
  \/ \E q \in Borrowers : getRandomSharedToken_query(q)
  \/ \E q \in Borrowers : getRandomSharedToken_scan(q)
  \/ \E q \in Borrowers : getRandomSharedToken_return(q)
  \/ \E q \in Borrowers : checkAndBanAbuser_resume(q)
  \/ \E isShared \in BOOLEAN, dailyLimit \in DailyLimits :
       updateTokenSharing(1, 0, isShared, dailyLimit)
  \/ getAllSharedTokens
  \/ addToTokenBlacklist(1, 1, 2)
  \/ removeFromTokenBlacklist(1, 1, 2)
  \/ unbanUser_call(2)
  \/ Tick

SpecShare == InitShare /\ [][NextShare]_vars

\* C12: within one day the borrows granted against a shared credential never
\* exceed its daily limit, and borrowing never takes usage_today past
\* daily_limit, whichever way concurrent borrowers interleave.
C12_BorrowsWithinLimit ==
  [][\A t \in UserTokenIds :
       shareLog'.borrows[t] # shareLog.borrows[t] =>
         /\ shareLog'.borrows[t].n <= userTokens'[t].daily_limit
         /\ userTokens'[t].usage_today <= userTokens'[t].daily_limit]_vars

\* C13: a call for borrower B never selects a credential whose blacklist
\* holds B, at the moment the credential is selected; when every credential
\* with quota left is blacklisted for B the call returns null and grants
\* nothing.
C13_BlacklistedNeverSelected ==
  [][\A q \in Borrowers :
       /\ (borrower'[q].pc = "usage_awaited" /\ borrower[q].pc # "usage_awaited" =>
             <<userTokens[borrower'[q].selected].user_id,
               tokenIndexOf(userTokens, borrower'[q].selected),
               borrower'[q].callerId>> \notin share_blacklist)
       /\ (/\ borrower[q].pc \in {"ban_awaited", "blacklist_awaited"}
           /\ shareLog'.result.value = "null"
           /\ borrower'[q].pc = "idle"
           => /\ shareLog'.borrows = shareLog.borrows
              /\ share_usage' = share_usage
              /\ \A t \in UserTokenIds :
                   userTokens'[t].usage_today <= userTokens[t].usage_today)]_vars

\* Credential 2 is the only credential with quota left and its blacklist
\* holds borrower 2, whose call has just returned null
C13_Witness ==
  /\ shareLog.result.value = "null"
  /\ shareLog.result.callerId = 2
  /\ <<1, 1, 2>> \in share_blacklist
  /\ <<1, 0, 2>> \notin share_blacklist
  /\ listedTokens(userTokens, users) = <<1, 2>>
  /\ userTokens[1].usage_today = userTokens[1].daily_limit
  /\ userTokens[2].usage_today < userTokens[2].daily_limit
  /\ userTokens[2].last_reset_date = DateString(now)

\* C14: a call of getRandomSharedToken(B) made while B has a ban record with
\* ban_until in the future returns the banned result with that ban_until,
\* the time remaining and the stored reason; it selects nothing, raises no
\* borrow counter and records no usage sample.
C14_BannedGetsNothing ==
  [][\A q \in Borrowers :
       /\ (/\ borrower[q].pc = "idle" /\ borrower'[q].pc # "idle"
           /\ \E ban \in share_bans :
                ban.user_id = borrower'[q].callerId /\ ban.ban_until > now
           => /\ borrower'[q].pc = "ban_awaited"
              /\ borrower'[q].banStatus.banned
              /\ \E ban \in share_bans :
                   /\ ban.user_id = borrower'[q].callerId
                   /\ borrower'[q].banStatus.banUntil = ban.ban_until
                   /\ borrower'[q].banStatus.remainingTime = ban.ban_until - now
                   /\ borrower'[q].banStatus.reason = ban.reason
              /\ share_bans' = share_bans
              /\ userTokens' = userTokens
              /\ share_usage' = share_usage)
       /\ (/\ borrower[q].pc = "ban_awaited" /\ borrower[q].banStatus.banned
           /\ borrower'[q] # borrower[q]
           => /\ borrower'[q].pc = "idle"
              /\ shareLog'.result.value = "banned"
              /\ shareLog'.result.callerId = borrower[q].callerId
              /\ shareLog'.result.banUntil = borrower[q].banStatus.banUntil
              /\ shareLog'.result.remainingTime = borrower[q].banStatus.remainingTime
              /\ shareLog'.result.reason = borrower[q].banStatus.reason
              /\ shareLog'.borrows = shareLog.borrows
              /\ userTokens' = userTokens
              /\ share_usage' = share_usage)]_vars

\* Borrower 2 has just been turned away one tick before the ban ends, while
\* a credential was there to borrow
C14_Witness ==
  /\ shareLog.result.value = "banned"
  /\ shareLog.result.callerId = 2
  /\ shareLog.result.remainingTime = TickMs
  /\ shareLog.result.banUntil = now + TickMs
  /\ shareLog.result.reason = "abuse"
  /\ listedTokens(userTokens, users) # <<>>
  /\ \A t \in UserTokenIds : userTokens[t].usage_today = 0

-----------------------------------------------------------------------------
(* The abuse guard alone: share_usage and share_bans as earlier borrowing   *)
(* and earlier bans may have left them, then checkAndBanAbuser(2) and       *)
(* isUserBanned(2) in any order while the clock moves.                      *)

\* Samples per day a borrower may have left on each of the last three days
DayCounts == {0, 49, 50, 51}

\* n samples of one user on day d, a millisecond apart
SamplesOn(userId, d, n) == {<<userId, d, k>> : k \in 1..n}

\* checkAndBanAbuser(userId), lines 192-194: up to `await getUserAverageUsage`
checkAndBanAbuser_call(q, userId) ==
  /\ borrower[q].pc = "idle"
  /\ FreeBorrower(q)
  /\ ShareMacroTask
  /\ calls < MaxBorrows
  /\ calls' = calls + 1
  /\ borrower' = [borrower EXCEPT ![q] =
        [NoCall EXCEPT !.pc = "average_awaited", !.callerId = userId,
                       !.avgUsage = getUserAverageUsage(share_usage, userId)]]
  /\ shareLog' = [shareLog EXCEPT !.result = NoResult]
  /\ UNCHANGED <<users, userTokens, share_bans, share_usage, share_blacklist>>
  /\ poolUnchanged

\* isUserBanned(userId), called on its own
isUserBanned_call(userId) ==
  /\ ShareMacroTask
  /\ LET banStatus == isUserBanned(share_bans, userId)
     IN /\ share_bans' = banStatus.bans
        /\ shareLog' = [shareLog EXCEPT !.result =
              [NoResult EXCEPT !.op = "isUserBanned", !.callerId = userId,
                               !.value = IF banStatus.banned THEN "banned" ELSE "clear",
                               !.banUntil = banStatus.banUntil,
                               !.remainingTime = banStatus.remainingTime,
                               !.reason = banStatus.reason]]
  /\ UNCHANGED <<users, userTokens, share_usage, share_blacklist, borrower, calls>>
  /\ poolUnchanged

InitAbuse ==
  /\ InitPool([id \in Creds |-> InitRow(TRUE, TRUE)], 0)
  /\ users = [u \in Users |-> [enabled |-> 1]]
  /\ userTokens = [t \in UserTokenIds |->
       [user_id |-> 1, enabled |-> 1, is_shared |-> 1, daily_limit |-> 1,
        usage_today |-> 0, last_reset_date |-> 0]]
  /\ \E n0 \in DayCounts, n1 \in DayCounts, n2 \in DayCounts :
       share_usage = SamplesOn(2, 0, n0) \cup SamplesOn(2, 1, n1) \cup SamplesOn(2, 2, n2)
  /\ share_bans \in {{}, {[user_id |-> 2, ban_until |-> StartTime + TickMs,
                          reason |-> "abuse", created |-> StartTime - DayMs + TickMs]}}
  /\ share_blacklist = {}
  /\ borrower = [q \in Borrowers |-> NoCall]
  /\ shareLog = [result |-> NoResult, borrows |-> [t \in UserTokenIds |-> NoBorrows],
                 bans |-> [u \in Users |-> Cardinality(BanRows(share_bans, u))]]

NextAbuse ==
  \/ \E q \in Borrowers : checkAndBanAbuser_call(q, 2)
  \/ \E q \in Borrowers : checkAndBanAbuser_resume(q)
  \/ isUserBanned_call(2)
  \/ Tick

SpecAbuse == InitAbuse /\ [][NextAbuse]_vars

\* The samples share_usage keeps for a user, and the days they fall on
SamplesOf(userId) == {row \in share_usage : row[1] = userId}
SampleDays(userId) == {row[2] : row \in SamplesOf(userId)}

\* C15: checkAndBanAbuser(B) issues a ban exactly when B's samples divided
\* by B's distinct days with a sample, without rounding, exceed 50; with no
\* sample it issues none.
C15_BanIffAverageAbove50 ==
  [][\A q \in Borrowers :
       borrower[q].pc = "average_awaited" /\ borrower'[q].pc = "idle" =>
         LET B == borrower[q].callerId
             issued == share_bans' # share_bans
         IN IF SamplesOf(B) = {} THEN ~issued
            ELSE issued <=>
                   Cardinality(SamplesOf(B)) > USAGE_THRESHOLD * Cardinality(SampleDays(B))]_vars

\* C16: the k-th ban issued to a borrower lasts BAN_DURATIONS[min(k-1, 5)]
\* days (1, 3, 7, 14, 30, 90), counting bans that have expired or been
\* replaced since.
C16_BansEscalate ==
  [][\A u \in Users :
       shareLog'.bans[u] # shareLog.bans[u] =>
         \E ban \in share_bans' :
           /\ ban.user_id = u
           /\ ban.created = now
           /\ ban.ban_until - ban.created =
                BAN_DURATIONS[Min(shareLog'.bans[u] - 1, Len(BAN_DURATIONS) - 1) + 1] * DayMs]_vars

\* C17: with a ban record and now >= ban_until, isUserBanned reports the
\* borrower clear and removes the record; with now < ban_until it reports
\* banned with remainingTime = ban_until - now > 0 and the stored reason.
C17_BanEndsAtBanUntil ==
  [][\A ban \in share_bans :
       shareLog'.result.op = "isUserBanned" /\ shareLog'.result.callerId = ban.user_id =>
         IF now >= ban.ban_until
         THEN shareLog'.result.value = "clear" /\ ban \notin share_bans'
         ELSE /\ shareLog'.result.value = "banned"
              /\ shareLog'.result.remainingTime = ban.ban_until - now
              /\ shareLog'.result.remainingTime > 0
              /\ shareLog'.result.reason = ban.reason
              /\ ban \in share_bans']_vars

\* Borrows granted today against credential t
BorrowsToday(t) ==
  IF shareLog.borrows[t].day = DateString(now) THEN shareLog.borrows[t].n ELSE 0

\* C18: updateTokenSharing(owner, c, {isShared: true, dailyLimit: L}) with L
\* a limit the store accepts leaves c shared with daily limit L, and every
\* report of getAllSharedTokens gives for each credential its daily limit,
\* usageToday = the borrows granted against it today, and
\* remainingToday = dailyLimit - usageToday: L before any borrow of the day
\* and one less after each.
C18_RemainingCountsBorrows ==
  [][/\ (/\ shareLog'.result.op = "updateTokenSharing"
         /\ shareLog'.result.isShared
         /\ shareLog'.result.dailyLimit \in 1..MaxDailyLimit
         => /\ userTokens'[shareLog'.result.token].is_shared = 1
            /\ userTokens'[shareLog'.result.token].daily_limit = shareLog'.result.dailyLimit)
     /\ (shareLog'.result.op = "getAllSharedTokens" =>
           \A k \in 1..Len(shareLog'.result.list) :
             LET entry == shareLog'.result.list[k]
             IN /\ entry.dailyLimit = userTokens[entry.id].daily_limit
                /\ entry.usageToday + entry.remainingToday = entry.dailyLimit
                /\ entry.usageToday = BorrowsToday(entry.id))]_vars

\* A credential that is shared, enabled, and whose owner is enabled
Offered(t) ==
  /\ userTokens[t].is_shared = 1
  /\ userTokens[t].enabled = 1
  /\ users[userTokens[t].user_id].enabled = 1

\* C19: getAllSharedTokens lists exactly the credentials that are shared,
\* enabled and owned by an enabled account; getRandomSharedToken takes its
\* candidates from exactly the same credentials and returns no other.
C19_SameCandidates ==
  [][/\ (shareLog'.result.op = "getAllSharedTokens" =>
           {shareLog'.result.list[k].id : k \in 1..Len(shareLog'.result.list)}
             = {t \in UserTokenIds : Offered(t)})
     /\ \A q \in Borrowers :
          /\ (borrower[q].pc = "ban_awaited" /\ borrower'[q].pc = "blacklist_awaited" =>
                {borrower'[q].tokens[k].id : k \in 1..Len(borrower'[q].tokens)}
                  = {t \in UserTokenIds : Offered(t)})
          /\ (borrower[q].pc = "ban_awaited" /\ ~borrower[q].banStatus.banned
              /\ borrower'[q].pc = "idle"
              => {t \in UserTokenIds : Offered(t)} = {})
          /\ (borrower'[q].pc = "usage_awaited" /\ borrower[q].pc # "usage_awaited" =>
                Offered(borrower'[q].selected))
          /\ (shareLog'.result.op = "getRandomSharedToken" /\ shareLog'.result.value = "token"
              => Offered(shareLog'.result.token))]_vars

\* A borrow has just been granted while the owner's other credential was
\* kept back: private, or disabled
C19_Witness ==
  /\ shareLog.result.op = "getRandomSharedToken"
  /\ shareLog.result.value = "token"
  /\ \E t \in UserTokenIds : t # shareLog.result.token /\ ~Offered(t)

\* C20: every borrow granted to B adds exactly one usage sample for B, also
\* when B borrows several times at the same clock instant.
C20_OneSamplePerBorrow ==
  [][\A q \in Borrowers :
       borrower'[q].pc = "usage_awaited" /\ borrower[q].pc # "usage_awaited" =>
         LET B == borrower'[q].callerId
         IN Cardinality({row \in share_usage' : row[1] = B})
              = Cardinality({row \in share_usage : row[1] = B}) + 1]_vars

-----------------------------------------------------------------------------
(* The usage log alone: share_usage as a month of borrowing by two users    *)
(* may have left it, then recordShareUsage() for either user while the      *)
(* clock moves.                                                             *)

\* Samples either user may have left: one older than the retention window,
\* one that is exactly RetentionDays old when the clock starts, one of
\* yesterday
KeptSamples ==
  {<<u, d[1], d[2]>> :
     u \in {1, 2},
     d \in {<<StartTime \div DayMs - RetentionDays - 1, 0>>,
            <<StartTime \div DayMs - RetentionDays, StartTime % DayMs>>,
            <<StartTime \div DayMs - 1, 0>>}}

\* recordShareUsage(userId), called on its own
recordShareUsage_call(userId) ==
  /\ ShareMacroTask
  /\ calls < MaxBorrows
  /\ calls' = calls + 1
  /\ share_usage' = recordShareUsage(share_usage, userId)
  /\ shareLog' = [shareLog EXCEPT !.result =
        [NoResult EXCEPT !.op = "recordShareUsage", !.callerId = userId]]
  /\ UNCHANGED <<users, userTokens, share_bans, share_blacklist, borrower>>
  /\ poolUnchanged

InitRetention ==
  /\ InitPool([id \in Creds |-> InitRow(TRUE, TRUE)], 0)
  /\ users = [u \in Users |-> [enabled |-> 1]]
  /\ userTokens = [t \in UserTokenIds |->
       [user_id |-> 1, enabled |-> 1, is_shared |-> 1, daily_limit |-> 1,
        usage_today |-> 0, last_reset_date |-> 0]]
  /\ share_usage \in SUBSET KeptSamples
  /\ share_bans = {}
  /\ share_blacklist = {}
  /\ borrower = [q \in Borrowers |-> NoCall]
  /\ shareLog = [result |-> NoResult, borrows |-> [t \in UserTokenIds |-> NoBorrows],
                 bans |-> [u \in Users |-> 0]]

NextRetention ==
  \/ \E userId \in {1, 2} : recordShareUsage_call(userId)
  \/ Tick

SpecRetention == InitRetention /\ [][NextRetention]_vars

\* C21: recordShareUsage(B) removes B's samples older than 30 days and no
\* other: the samples of every other borrower stay as they were, and so do
\* B's samples that are 30 days old or younger.
C21_PrunesOnlyCaller ==
  [][shareLog'.result.op = "recordShareUsage" =>
       LET B == shareLog'.result.callerId
       IN /\ {row \in share_usage' : row[1] # B} = {row \in share_usage : row[1] # B}
          /\ \A row \in share_usage :
               row[1] = B => (row \in share_usage' <=> ~olderThanRetention(row))]_vars

-----------------------------------------------------------------------------
(* Claims about refreshing and caching *)

\* C22: when the token endpoint succeeds, refreshToken(c) overwrites c's
\* access token and lifetime, sets its issue timestamp to the current time
\* and persists them; when the endpoint fails, the endpoint's error reaches
\* the caller after that one attempt, and neither the cached credentials nor
\* the store have changed.
C22_RefreshOutcome ==
  [][\A p \in Procs :
       pc[p] \in {"gn_fetch", "ga_fetch"} /\ pc'[p] # pc[p] =>
         LET before == heap[held[p]]
             c == before.cred
         IN IF thrown'.p = p
            THEN /\ thrown'.error = RefreshDenied
                 /\ pc'[p] = "idle"
                 /\ db' = db
                 /\ Cached' = Cached
            ELSE /\ pc'[p] \in {"holding", "any"}
                 /\ \E lifetime \in Lifetimes :
                      /\ heap'[held'[p]] = [before EXCEPT !.access_token = now,
                                                           !.expires_in = lifetime,
                                                           !.timestamp = now]
                      /\ db'[c].access_token = now
                      /\ db'[c].expires_in = lifetime
                      /\ db'[c].timestamp = now
                 /\ \A d \in Creds \ {c} : db'[d] = db[d]]_vars

\* Credential 1, never refreshed before, has just been refreshed a tick
\* after the start and handed to the caller
C22_Witness ==
  \E p \in Procs :
    /\ pc[p] \in {"holding", "any"}
    /\ now > StartTime
    /\ heap[held[p]].cred = 1
    /\ heap[held[p]].timestamp = now
    /\ heap[held[p]].access_token = now
    /\ db[1].timestamp = now
    /\ db[1].expires_in \in Lifetimes

\* A token issued so long ago that it comes within ExpiryMarginMs of its
\* expiry exactly one tick after the start
AgingRow ==
  [InitRow(TRUE, TRUE) EXCEPT
     !.timestamp = StartTime + TickMs + ExpiryMarginMs - 3599 * 1000,
     !.access_token = StartTime + TickMs + ExpiryMarginMs - 3599 * 1000]

\* Each credential holds an aging token, a fresh one, or none yet
InitExpiry ==
  \E kind \in [Creds -> {"aging", "fresh", "never"}] :
    InitWith([id \in Creds |->
                IF kind[id] = "aging" THEN AgingRow
                ELSE InitRow(kind[id] = "fresh", TRUE)], 0)

NextExpiry ==
  \/ \E p \in Procs : getNextToken_load(p)
  \/ \E p \in Procs : getNextToken_select(p)
  \/ \E p \in Procs, lifetime \in Lifetimes : refreshToken_ok(p, lifetime)
  \/ \E p \in Procs : refreshToken_fail(p, RefreshDenied)
  \/ \E p \in Procs : release(p)
  \/ Tick

SpecExpiry == InitExpiry /\ [][NextExpiry]_vars

\* Issue timestamp or lifetime missing, or within 30 s of the expiry
WithinMargin(token) ==
  \/ token.timestamp = 0
  \/ token.expires_in = 0
  \/ now >= token.timestamp + token.expires_in * 1000 - 30000

\* C23: a credential getNextToken() returns is not expired when it is
\* returned.  One that is expired when selected (timestamp or lifetime
\* missing, or now >= issue + lifetime - 30 s) is refreshed first; one that
\* is not is returned as it is, without a refresh.
C23_ReturnedNotExpired ==
  [][\A p \in Procs :
       /\ (pc[p] = "gn_select" /\ pc'[p] = "gn_fetch" => WithinMargin(heap'[held'[p]]))
       /\ (pc[p] = "gn_select" /\ pc'[p] = "holding" =>
             /\ ~WithinMargin(heap'[held'[p]])
             /\ \E o \in Range(tokens) : heap[o] = heap'[held'[p]])
       /\ (pc[p] = "gn_fetch" /\ pc'[p] = "holding" =>
             /\ ~WithinMargin(heap'[held'[p]])
             /\ heap'[held'[p]].timestamp = now)
       /\ (pc[p] # "holding" /\ pc'[p] = "holding" => pc[p] \in {"gn_select", "gn_fetch"})]_vars

\* An aging token has been selected at the very instant it came within 30 s
\* of its expiry, and is being refreshed before it is handed out
C23_Witness ==
  \E p \in Procs :
    /\ pc[p] = "gn_fetch"
    /\ heap[held[p]].timestamp = AgingRow.timestamp
    /\ now = AgingRow.timestamp + AgingRow.expires_in * 1000 - ExpiryMarginMs

-----------------------------------------------------------------------------
(* Lookups beside the rotation: getNextToken() and getAnyEnabledToken()     *)
(* calls in any order, their refreshes, and the clock.                      *)

\* A credential quarantined until the coming UTC midnight
QuarantinedRow ==
  [InitRow(TRUE, TRUE) EXCEPT !.disabled_until = NextUtcMidnight(StartTime),
                              !.quota_exhausted = 1]

\* Each credential is ready, has no token yet, is quarantined, or disabled
InitAny ==
  \E kind \in [Creds -> {"fresh", "never", "quarantined", "disabled"}],
     cursor \in {0, 1} :
    InitWith([id \in Creds |->
                IF kind[id] = "quarantined" THEN QuarantinedRow
                ELSE InitRow(kind[id] # "never", kind[id] # "disabled")], cursor)

NextAny ==
  \/ \E p \in Procs : getNextToken_load(p)
  \/ \E p \in Procs : getNextToken_select(p)
  \/ \E p \in Procs : getAnyEnabledToken_load(p)
  \/ \E p \in Procs : getAnyEnabledToken_select(p)
  \/ \E p \in Procs, lifetime \in Lifetimes : refreshToken_ok(p, lifetime)
  \/ \E p \in Procs : refreshToken_fail(p, RefreshDenied)
  \/ \E p \in Procs : release(p)
  \/ Tick

SpecAny == InitAny /\ [][NextAny]_vars

\* A step of a getAnyEnabledToken() call of handler p
AnyStep(p) ==
  \/ pc[p] = "idle" /\ pc'[p] = "ga_select"
  \/ pc[p] \in {"ga_select", "ga_fetch"} /\ pc'[p] # pc[p]

\* What a selection by getNextToken() depends on besides the cursor and the
\* clock: the cached credentials in order, with their enable flag and
\* quarantine
RotationView ==
  [i \in 1..Len(tokens) |->
     <<heap[tokens[i]].cred, heap[tokens[i]].enable, heap[tokens[i]].disabledUntil>>]

-----------------------------------------------------------------------------
(* Loading and reloading the cached set, with a store that can fail for a   *)
(* while and come back.                                                     *)

\* The store answers again after a failure
storeRecovery ==
  /\ MacroTask
  /\ ~dbUp
  /\ dbUp' = TRUE
  /\ UNCHANGED <<now, db, heap, tokens, lastLoadTime, currentTokenIndex,
                 usageStats, pc, held, failed>>
  /\ UNCHANGED shareVars
  /\ thrown' = NotThrown /\ swept' = FALSE
  /\ UNCHANGED <<calls, rotation, quarantinedUntil, lastCharge>>

NextReload ==
  \/ \E p \in Procs : getNextToken_load(p)
  \/ \E p \in Procs : getNextToken_select(p)
  \/ \E p \in Procs, lifetime \in Lifetimes : refreshToken_ok(p, lifetime)
  \/ \E p \in Procs : release(p)
  \/ forceReload
  \/ storeOutage
  \/ storeRecovery
  \/ Tick

SpecReload == Init /\ [][NextReload]_vars

\* C25: a call that runs loadTokens() without force less than 60 s after the
\* previous load keeps the cached set as it is, whatever it contains, and
\* does not move the load time.
C25_CacheReusedWithinInterval ==
  [][\A p \in Procs :
       /\ pc[p] = "idle" /\ pc'[p] \in {"gn_select", "ga_select"}
       /\ now - lastLoadTime < loadInterval
       => Cached' = Cached /\ lastLoadTime' = lastLoadTime]_vars

-----------------------------------------------------------------------------
(* Sharing settings: owners set the daily limit of their own credentials,   *)
(* by index, with limits below, inside and above the permitted range.       *)

LimitInputs == {0 - 1, 0, 1, 2, MaxDailyLimit, MaxDailyLimit + 1}

TokenIndexes == (0 - 1)..NUserTokens

InitLimit ==
  /\ InitPool([id \in Creds |-> InitRow(TRUE, TRUE)], 0)
  /\ users = [u \in Users |-> [enabled |-> 1]]
  /\ \E owner \in [UserTokenIds -> Users] :
       userTokens = [t \in UserTokenIds |->
            [user_id |-> owner[t], enabled |-> 1, is_shared |-> 0,
             daily_limit |-> 100, usage_today |-> 0, last_reset_date |-> 0]]
  /\ share_bans = {}
  /\ share_usage = {}
  /\ share_blacklist = {}
  /\ borrower = [q \in Borrowers |-> NoCall]
  /\ shareLog = [result |-> NoResult, borrows |-> [t \in UserTokenIds |-> NoBorrows],
                  bans |-> [u \in Users |-> 0]]

NextLimit ==
  \E userId \in Users, tokenIndex \in TokenIndexes, isShared \in BOOLEAN,
     dailyLimit \in LimitInputs :
    updateTokenSharing(userId, tokenIndex, isShared, dailyLimit)

SpecLimit == InitLimit /\ [][NextLimit]_vars

\* C26: updateTokenSharing with an integer dailyLimit stores
\* min(10000, max(1, dailyLimit)), a value within [1, 10000], in the
\* credential at that index among the caller's own and in no other; an index
\* below 0 or beyond the caller's credentials gives an error and no
\* credential changes.
C26_LimitClamped ==
  [][shareLog'.result.op = "updateTokenSharing" =>
       LET r == shareLog'.result
           own == {t \in UserTokenIds : userTokens[t].user_id = r.callerId}
           atLeastOne == IF r.dailyLimit > 1 THEN r.dailyLimit ELSE 1
           stored == IF atLeastOne < 10000 THEN atLeastOne ELSE 10000
       IN IF r.tokenIndex < 0 \/ r.tokenIndex >= Cardinality(own)
          THEN r.value = "error" /\ userTokens' = userTokens
          ELSE /\ r.value = "success"
               /\ r.token \in own
               /\ Cardinality({t \in own : t < r.token}) = r.tokenIndex
               /\ userTokens'[r.token].daily_limit = stored
               /\ userTokens'[r.token].daily_limit \in 1..10000
               /\ \A t \in UserTokenIds \ {r.token} : userTokens'[t] = userTokens[t]]_vars

\* A limit of 10001 has been stored as 10000 while another credential holds
\* the limit 1 stored for a request of 0 or less
C26_Witness ==
  /\ shareLog.result.op = "updateTokenSharing"
  /\ shareLog.result.value = "success"
  /\ shareLog.result.dailyLimit = MaxDailyLimit + 1
  /\ userTokens[shareLog.result.token].daily_limit = MaxDailyLimit
  /\ \E t \in UserTokenIds : userTokens[t].daily_limit = 1

-----------------------------------------------------------------------------
(* getUserOrSharedToken(): a user's own credential if there is one, else    *)
(* the shared pool.                                                          *)

\* getUserAvailableToken(userId), line 771: the caller's enabled credentials
ownTokens(toks, userId) ==
  SortedSeq({t \in UserTokenIds : toks[t].user_id = userId /\ toks[t].enabled = 1})

\* The loop of getRandomSharedToken(), lines 990-1016, for a call without
\* callerId: no blacklist lookup and so no `await`; gives the table as the
\* loop leaves it and the credentials with borrows left today
RECURSIVE ScanAll(_, _, _, _)
ScanAll(rows, today, toks, available) ==
  IF rows = <<>> THEN [toks |-> toks, availableTokens |-> available]
  ELSE LET t == Head(rows)
           seen == IF toks[t].last_reset_date # today
                   THEN [toks EXCEPT ![t].usage_today = 0, ![t].last_reset_date = today]
                   ELSE toks
       IN ScanAll(Tail(rows), today, seen,
                  IF seen[t].usage_today < seen[t].daily_limit
                  THEN Append(available, t) ELSE available)

\* What getUserOrSharedToken(userId) has returned
Obtained(userId, value, token) ==
  [NoResult EXCEPT !.op = "getUserOrSharedToken", !.callerId = userId,
                   !.value = value, !.token = token]

\* getUserOrSharedToken(userId), line 1098, up to the await
getUserOrSharedToken_call(q, userId) ==
  /\ borrower[q].pc = "idle"
  /\ FreeBorrower(q)
  /\ \A r \in Borrowers : borrower[r].pc \in {"idle", "own_awaited"}
  /\ calls < MaxBorrows
  /\ calls' = calls + 1
  /\ LET own == ownTokens(userTokens, userId)
     IN \E randomIndex \in 0..Len(own) :
          /\ (randomIndex = 0) = (own = <<>>)
          /\ borrower' = [borrower EXCEPT ![q] =
                [NoCall EXCEPT !.pc = "own_awaited", !.callerId = userId,
                               !.selected = IF own = <<>> THEN 0 ELSE own[randomIndex]]]
  /\ shareLog' = [shareLog EXCEPT !.result = NoResult]
  /\ UNCHANGED <<users, userTokens, share_bans, share_usage, share_blacklist>>
  /\ poolUnchanged

\* lines 1099-1112: return the own credential, or call getRandomSharedToken()
\* with no argument, which then runs lines 979-1033 and 1046-1051
getUserOrSharedToken_fallback(q) ==
  /\ borrower[q].pc = "own_awaited"
  /\ borrower' = [borrower EXCEPT ![q] = NoCall]
  /\ LET userId == borrower[q].callerId
         today == DateString(now)
         scan == ScanAll(borrowableTokens(userTokens, users), today, userTokens, <<>>)
     IN IF borrower[q].selected # 0
        THEN /\ shareLog' = [shareLog EXCEPT
                   !.result = Obtained(userId, "own", borrower[q].selected)]
             /\ UNCHANGED userTokens
        ELSE IF scan.availableTokens = <<>>
        THEN /\ shareLog' = [shareLog EXCEPT !.result = Obtained(userId, "null", 0)]
             /\ userTokens' = scan.toks
        ELSE \E randomIndex \in 1..Len(scan.availableTokens) :
               LET selected == scan.availableTokens[randomIndex]
               IN /\ userTokens' = [scan.toks EXCEPT ![selected].usage_today = @ + 1]
                  /\ shareLog' = [shareLog EXCEPT
                        !.result = Obtained(userId, "shared", selected),
                        !.borrows = Granted(shareLog.borrows, selected, today)]
  /\ UNCHANGED <<users, share_bans, share_usage, share_blacklist, calls>>
  /\ poolUnchanged

\* User 1 owns both credentials and may have blacklisted user 2 on the second;
\* user 2 owns none and may be banned
InitFallback ==
  /\ InitPool([id \in Creds |-> InitRow(TRUE, TRUE)], 0)
  /\ \E ownerEnabled \in {0, 1}, shared1 \in {0, 1}, enabled2 \in {0, 1} :
       /\ users = [u \in Users |-> [enabled |-> IF u = 1 THEN ownerEnabled ELSE 1]]
       /\ userTokens = [t \in UserTokenIds |->
            [user_id |-> 1,
             enabled |-> IF t = 2 THEN enabled2 ELSE 1,
             is_shared |-> IF t = 1 THEN shared1 ELSE 1,
             daily_limit |-> 1, usage_today |-> 0, last_reset_date |-> 0]]
  /\ share_bans \in {{}, {[user_id |-> 2, ban_until |-> StartTime + TickMs,
                          reason |-> "abuse", created |-> StartTime - DayMs + TickMs]}}
  /\ share_usage = {}
  /\ share_blacklist \in {{}, {<<1, 1, 2>>}}
  /\ borrower = [q \in Borrowers |-> NoCall]
  /\ shareLog = [result |-> NoResult, borrows |-> [t \in UserTokenIds |-> NoBorrows],
                  bans |-> [u \in Users |-> Cardinality(BanRows(share_bans, u))]]

NextFallback ==
  \/ \E q \in Borrowers, userId \in Users : getUserOrSharedToken_call(q, userId)
  \/ \E q \in Borrowers : getUserOrSharedToken_fallback(q)
  \/ Tick

SpecFallback == InitFallback /\ [][NextFallback]_vars

\* C27: when getUserOrSharedToken(userId) hands out a credential of the
\* shared pool, userId is not banned at that moment, the credential does not
\* blacklist userId, and a usage sample of userId at that instant is recorded.
C27_FallbackGuarded ==
  [][shareLog'.result.op = "getUserOrSharedToken" /\ shareLog'.result.value = "shared" =>
       LET r == shareLog'.result
           owner == userTokens[r.token].user_id
           index == Cardinality({t \in UserTokenIds :
                                   userTokens[t].user_id = owner /\ t < r.token})
       IN /\ ~\E ban \in share_bans : ban.user_id = r.callerId /\ now <= ban.ban_until
          /\ <<owner, index, r.callerId>> \notin share_blacklist
          /\ UsageRow(r.callerId, now) \in share_usage']_vars

-----------------------------------------------------------------------------
(* The pool with an administrator who disables accounts and never enables   *)
(* one.                                                                      *)

NextToggle ==
  \/ Next
  \/ \E c \in Creds : toggleAccount(c, FALSE)

SpecToggle == Init /\ [][NextToggle]_vars

\* C28: a credential whose store row has enabled = 0 keeps enabled = 0 in the
\* store and stays out of the cached set through every step of the pool, no
\* account being enabled by an administrator.
C28_DisabledStaysDisabled ==
  [][\A c \in Creds :
       db[c].enabled = 0 =>
         /\ db'[c].enabled = 0
         /\ \A i \in 1..Len(tokens') : heap'[tokens'[i]].cred # c]_vars

-----------------------------------------------------------------------------
(* Usage accounting beside reloads and refreshes: credential 1 has no       *)
(* token yet, so a call that selects it awaits a refresh before its request *)
(* is made and charged.                                                      *)

NextLedger ==
  \/ NextUsage
  \/ \E p \in Procs, lifetime \in Lifetimes : refreshToken_ok(p, lifetime)
  \/ forceReload

SpecLedger == Init /\ [][NextLedger]_vars

\* C29: the lifetime cost and the request count in a credential's store row
\* never decrease.
C29_TotalsNeverDecrease ==
  [][\A c \in Creds :
       /\ db'[c].total_cost >= db[c].total_cost
       /\ db'[c].total_requests >= db[c].total_requests]_vars

-----------------------------------------------------------------------------
(* The quota sweep: credential 1 starts quarantined until the coming UTC    *)
(* midnight, enabled or disabled by an administrator; requests that fail    *)
(* with 429 quarantine further credentials; the sweep runs at any time.     *)

InitSweep ==
  \E kind \in [Creds -> {"fresh", "quarantined", "quarantinedOff", "disabled"}] :
    /\ kind[1] \in {"quarantined", "quarantinedOff"}
    /\ InitWith([id \in Creds |->
                   IF kind[id] = "quarantined" THEN QuarantinedRow
                   ELSE IF kind[id] = "quarantinedOff"
                   THEN [QuarantinedRow EXCEPT !.enabled = 0]
                   ELSE InitRow(TRUE, kind[id] # "disabled")], 0)

NextSweep ==
  \/ \E p \in Procs : getNextToken_load(p)
  \/ \E p \in Procs : getNextToken_select(p)
  \/ \E p \in Procs : release(p)
  \/ \E p \in Procs, error \in Errors : handleRequestError_quota(p, error)
  \/ quotaResetCheck
  \/ Tick

SpecSweep == InitSweep /\ [][NextSweep]_vars

\* The store rows the sweep of this instant applies to
DueRows == {c \in Creds : db[c].disabled_until # 0 /\ db[c].disabled_until <= now}

\* C30: a sweep clears disabled_until and quota_exhausted of exactly the rows
\* whose disabled_until is set and not after now, and changes nothing else in
\* the store, no enabled flag in particular; with no such row it leaves the
\* store and the cached set as they are, without a reload; after a sweep no
\* row is due, so a second sweep at the same instant changes nothing.
C30_SweepRestoresDueOnly ==
  [][swept' =>
       /\ \A c \in Creds :
            db'[c] = IF c \in DueRows
                     THEN [db[c] EXCEPT !.disabled_until = 0, !.quota_exhausted = 0]
                     ELSE db[c]
       /\ \A c \in Creds : db'[c].enabled = db[c].enabled
       /\ (DueRows = {} =>
             /\ db' = db /\ Cached' = Cached /\ lastLoadTime' = lastLoadTime)
       /\ \A c \in Creds : ~(db'[c].disabled_until # 0 /\ db'[c].disabled_until <= now')]_vars

\* A sweep has just lifted credential 1's quarantine while credential 2,
\* quarantined until a later midnight, stays quarantined
C30_Witness ==
  /\ swept
  /\ db[1].disabled_until = 0 /\ db[1].quota_exhausted = 0
  /\ db[2].disabled_until > now /\ db[2].quota_exhausted = 1
  /\ lastLoadTime = now

\* C31: disableTokenUntil, disableToken and refreshToken change the object
\* they were given whether or not the store accepts the write, and a store
\* row changed by the operation shows what the object shows: the store is
\* never ahead of the object.  disableTokenUntil leaves the object in the
\* cached set when no reload follows in the same call.
C31_ObjectBeforeStore ==
  [][\A p \in Procs :
       LET before == heap[held[p]]
           after == heap'[held'[p]]
           c == before.cred
       IN /\ (LeavesHolding(p) /\ \E error \in Errors : handleRequestError_quota(p, error)) =>
               /\ after.quotaExhausted /\ after.disabledUntil > now
               /\ after.enable = before.enable
               /\ (db'[c] # db[c] =>
                     /\ db'[c].disabled_until = after.disabledUntil
                     /\ db'[c].quota_exhausted = 1)
               /\ (held[p] \in Range(tokens) /\ now - lastLoadTime < loadInterval =>
                     held'[p] \in Range(tokens'))
          /\ (LeavesHolding(p) /\ \E error \in Errors : handleRequestError_denied(p, error)) =>
               /\ after.enable = FALSE
               /\ (db'[c] # db[c] => db'[c].enabled = 0)
          /\ (pc[p] \in {"gn_fetch", "ga_fetch"} /\ pc'[p] \in {"holding", "any"}) =>
               /\ after.timestamp = now /\ after.access_token = now
               /\ (db'[c] # db[c] =>
                     /\ db'[c].timestamp = after.timestamp
                     /\ db'[c].access_token = after.access_token
                     /\ db'[c].expires_in = after.expires_in)]_vars

\* While the store is failing a 429 has quarantined the object a caller holds:
\* the object, still cached, shows the quarantine and the store row does not
C31_Witness ==
  \E p \in Procs :
    /\ ~dbUp
    /\ pc[p] = "gn_select" /\ failed[p] # 0
    /\ held[p] \in Range(tokens)
    /\ heap[held[p]].quotaExhausted /\ heap[held[p]].disabledUntil > now
    /\ db[heap[held[p]].cred].disabled_until = 0

-----------------------------------------------------------------------------
(* Borrows by a user whose usage history is near the abuse threshold: the   *)
(* abuse check each borrow starts, and the calls that follow it.            *)

InitCheck ==
  /\ InitPool([id \in Creds |-> InitRow(TRUE, TRUE)], 0)
  /\ users = [u \in Users |-> [enabled |-> 1]]
  /\ userTokens = [t \in UserTokenIds |->
       [user_id |-> 1, enabled |-> 1, is_shared |-> 1, daily_limit |-> 2,
        usage_today |-> 0, last_reset_date |-> 0]]
  /\ \E n0 \in DayCounts, n1 \in DayCounts, n2 \in DayCounts :
       share_usage = SamplesOn(2, 0, n0) \cup SamplesOn(2, 1, n1) \cup SamplesOn(2, 2, n2)
  /\ share_bans = {}
  /\ share_blacklist = {}
  /\ borrower = [q \in Borrowers |-> NoCall]
  /\ shareLog = [result |-> NoResult, borrows |-> [t \in UserTokenIds |-> NoBorrows],
                 bans |-> [u \in Users |-> 0]]

NextCheck ==
  \/ \E q \in Borrowers : getRandomSharedToken_call(q, 2)
  \/ \E q \in Borrowers : getRandomSharedToken_banned(q)
  \/ \E q \in Borrowers : getRandomSharedToken_query(q)
  \/ \E q \in Borrowers : getRandomSharedToken_scan(q)
  \/ \E q \in Borrowers : getRandomSharedToken_return(q)
  \/ \E q \in Borrowers : checkAndBanAbuser_resume(q)
  \/ Tick

SpecCheck == InitCheck /\ [][NextCheck]_vars

\* The borrower's samples number more than 50 per day on which there is one
AverageAbove50(userId) ==
  LET records == {row \in share_usage : row[1] = userId}
  IN Cardinality(records) > 50 * Cardinality({row[2] : row \in records})

\* The borrower has a ban that is not over
BanInForce(bans, userId) == \E ban \in bans : ban.user_id = userId /\ ban.ban_until > now

\* C32: a borrow returns its credential before its abuse check has run, with
\* no ban issued yet; once the check of a borrow that left the borrower's
\* average above 50 has completed the borrower is banned, and a call begun
\* while that ban is in force gets the banned result.
C32_CheckAfterReturn ==
  [][\A q \in Borrowers :
       LET B == borrower[q].callerId
       IN /\ (borrower[q].pc = "usage_awaited" /\ borrower'[q].pc # "usage_awaited" =>
                /\ shareLog'.result = Returned(B, "token", borrower[q].selected)
                /\ share_bans' = share_bans
                /\ borrower'[q].pc = "average_awaited")
          /\ (/\ borrower[q].pc = "average_awaited" /\ borrower'[q].pc = "idle"
              /\ borrower[q].avgUsage = getUserAverageUsage(share_usage, B)
              /\ AverageAbove50(B)
              => BanInForce(share_bans', B))
          /\ (/\ borrower[q].pc = "idle" /\ borrower'[q].pc = "ban_awaited"
              /\ BanInForce(share_bans, borrower'[q].callerId)
              => borrower'[q].banStatus.banned)]_vars

-----------------------------------------------------------------------------
(* An owner who adds and deletes credentials while blacklist entries exist. *)
(* A google_tokens row that does not exist has user_id 0.                   *)

DeletedRow ==
  [user_id |-> 0, enabled |-> 0, is_shared |-> 0, daily_limit |-> 0,
   usage_today |-> 0, last_reset_date |-> 0]

\* SELECT id FROM google_tokens WHERE user_id = ? ORDER BY id
ownedTokens(toks, userId) == SortedSeq({t \in UserTokenIds : toks[t].user_id = userId})

\* deleteUserToken(userId, tokenIndex)
deleteUserToken(userId, tokenIndex) ==
  /\ ShareMacroTask
  /\ LET owned == ownedTokens(userTokens, userId)
         called == [NoResult EXCEPT !.op = "deleteUserToken", !.callerId = userId,
                                    !.tokenIndex = tokenIndex]
     IN IF tokenIndex < 0 \/ tokenIndex >= Len(owned)
        THEN /\ UNCHANGED userTokens
             /\ shareLog' = [shareLog EXCEPT !.result =
                   [called EXCEPT !.value = "error", !.reason = "Token not found"]]
        ELSE /\ userTokens' = [userTokens EXCEPT ![owned[tokenIndex + 1]] = DeletedRow]
             /\ shareLog' = [shareLog EXCEPT !.result =
                   [called EXCEPT !.value = "success", !.token = owned[tokenIndex + 1]]]
  /\ UNCHANGED <<users, share_bans, share_usage, share_blacklist, borrower, calls>>
  /\ poolUnchanged

\* addUserToken(userId, tokenData): the new row gets an id above every
\* existing one, is enabled, not shared, with daily_limit 100
addUserToken(userId) ==
  /\ ShareMacroTask
  /\ users[userId].enabled = 1
  /\ \E t \in UserTokenIds :
       /\ \A x \in UserTokenIds : userTokens[x].user_id # 0 => x < t
       /\ IF t = 1 THEN TRUE ELSE userTokens[t - 1].user_id # 0
       /\ userTokens' = [userTokens EXCEPT ![t] =
             [user_id |-> userId, enabled |-> 1, is_shared |-> 0, daily_limit |-> 100,
              usage_today |-> 0, last_reset_date |-> DateString(now)]]
       /\ shareLog' = [shareLog EXCEPT !.result =
             [NoResult EXCEPT !.op = "addUserToken", !.callerId = userId,
                              !.value = "success", !.token = t]]
  /\ UNCHANGED <<users, share_bans, share_usage, share_blacklist, borrower, calls>>
  /\ poolUnchanged

InitIndex ==
  /\ InitPool([id \in Creds |-> InitRow(TRUE, TRUE)], 0)
  /\ users = [u \in Users |-> [enabled |-> 1]]
  /\ \E present \in SUBSET UserTokenIds :
       /\ present # {}
       /\ userTokens = [t \in UserTokenIds |->
            IF t \in present
            THEN [user_id |-> 1, enabled |-> 1, is_shared |-> 1, daily_limit |-> 2,
                  usage_today |-> 0, last_reset_date |-> 0]
            ELSE DeletedRow]
  /\ share_bans \in {{}, {[user_id |-> 2, ban_until |-> StartTime + TickMs,
                          reason |-> "abuse", created |-> StartTime - DayMs + TickMs]}}
  /\ share_usage = {}
  /\ share_blacklist = {}
  /\ borrower = [q \in Borrowers |-> NoCall]
  /\ shareLog = [result |-> NoResult, borrows |-> [t \in UserTokenIds |-> NoBorrows],
                  bans |-> [u \in Users |-> Cardinality(BanRows(share_bans, u))]]

NextIndex ==
  \/ \E tokenIndex \in TokenIndexes : deleteUserToken(1, tokenIndex)
  \/ addUserToken(1)
  \/ \E tokenIndex \in 0..(NUserTokens - 1) :
       /\ tokenIndex < Len(ownedTokens(userTokens, 1))
       /\ addToTokenBlacklist(1, tokenIndex, 2)
  \/ \E tokenIndex \in 0..(NUserTokens - 1) : removeFromTokenBlacklist(1, tokenIndex, 2)
  \/ \E q \in Borrowers : getRandomSharedToken_call(q, 2)
  \/ \E q \in Borrowers : getRandomSharedToken_banned(q)
  \/ \E q \in Borrowers : getRandomSharedToken_query(q)
  \/ \E q \in Borrowers : getRandomSharedToken_scan(q)
  \/ \E q \in Borrowers : getRandomSharedToken_return(q)
  \/ \E q \in Borrowers : checkAndBanAbuser_resume(q)

SpecIndex == InitIndex /\ [][NextIndex]_vars

\* The blacklist excludes borrower b from the credential with id t, as the
\* selection looks it up: under the owner and the credential's position among
\* the owner's credentials
Excludes(toks, blacklist, t, b) ==
  <<toks[t].user_id,
    Cardinality({x \in UserTokenIds : toks[x].user_id = toks[t].user_id /\ x < t}),
    b>> \in blacklist

\* C33: when the owner adds or deletes a credential, every other credential
\* keeps exactly the borrowers its blacklist excluded before.
C33_EntryFollowsCredential ==
  [][shareLog'.result.op \in {"deleteUserToken", "addUserToken"} =>
       \A t \in UserTokenIds, b \in Users :
         userTokens[t].user_id # 0 /\ userTokens'[t].user_id # 0 =>
           (Excludes(userTokens', share_blacklist', t, b)
              <=> Excludes(userTokens, share_blacklist, t, b))]_vars

\* C34: the borrow counter of a shared credential goes back to 0 only in a
\* step that finds the credential's last_reset_date different from today and
\* sets it to today; no step lowers it on the day it was last reset.
C34_ResetOncePerDay ==
  [][\A t \in UserTokenIds :
       userTokens'[t].usage_today < userTokens[t].usage_today =>
         /\ userTokens[t].last_reset_date # DateString(now)
         /\ userTokens'[t].last_reset_date = DateString(now)
         /\ userTokens'[t].usage_today \in {0, 1}]_vars

\* C35: the round-robin cursor is always within 0..10000; a successful
\* selection by getNextToken() moves it by exactly one, or from 10000 to 0,
\* in the step that reads it, so the next selection reads another value; no
\* other step changes it.
C35_CursorAdvances ==
  [][/\ currentTokenIndex \in 0..10000
     /\ currentTokenIndex' \in 0..10000
     /\ \A p \in Procs :
          pc[p] = "gn_select" /\ pc'[p] \in {"holding", "gn_fetch"} =>
            /\ currentTokenIndex' # currentTokenIndex
            /\ \/ currentTokenIndex' = currentTokenIndex + 1
               \/ currentTokenIndex = 10000 /\ currentTokenIndex' = 0
     /\ ((\A p \in Procs : ~(pc[p] = "gn_select" /\ pc'[p] \in {"holding", "gn_fetch"}))
           => currentTokenIndex' = currentTokenIndex)]_vars

\* Two callers hold credentials at once, the second selection having taken
\* the cursor from 10000 back to 0
C35_Witness ==
  /\ \A p \in Procs : pc[p] = "holding"
  /\ Len(rotation) = 2
  /\ currentTokenIndex = 0

-----------------------------------------------------------------------------
(* The blacklist operations of share_manager.js with what they return.      *)

\* An INSERT OR IGNORE that adds an entry under every index of the owner
insertBlacklist_everyIndex(blacklist, ownerId, tokenIndex, targetUserId) ==
  blacklist \cup {<<ownerId, i, targetUserId>> : i \in 0..(NUserTokens - 1)}

\* INSERT OR IGNORE INTO share_blacklist (owner_id, token_index, blocked_user_id, ...)
insertBlacklist(blacklist, ownerId, tokenIndex, targetUserId) ==
  IF \E row \in blacklist : row = <<ownerId, tokenIndex, targetUserId>>
  THEN blacklist
  ELSE blacklist \cup {<<ownerId, tokenIndex, targetUserId>>}

\* DELETE FROM share_blacklist WHERE owner_id = ? AND token_index = ? AND blocked_user_id = ?
deleteBlacklist(blacklist, ownerId, tokenIndex, targetUserId) ==
  {row \in blacklist :
     ~(row[1] = ownerId /\ row[2] = tokenIndex /\ row[3] = targetUserId)}

\* SELECT blocked_user_id FROM share_blacklist WHERE owner_id = ? AND token_index = ?
blockedUsers(blacklist, ownerId, tokenIndex) ==
  SortedSeq({row[3] : row \in {r \in blacklist : r[1] = ownerId /\ r[2] = tokenIndex}})

BlacklistCall(op, ownerId, tokenIndex, targetUserId) ==
  [NoResult EXCEPT !.op = op, !.callerId = ownerId, !.tokenIndex = tokenIndex,
                   !.targetUserId = targetUserId]

addToTokenBlacklist_call(ownerId, tokenIndex, targetUserId) ==
  /\ ShareMacroTask
  /\ LET after == insertBlacklist(share_blacklist, ownerId, tokenIndex, targetUserId)
     IN /\ share_blacklist' = after
        /\ shareLog' = [shareLog EXCEPT !.result =
              [BlacklistCall("addToTokenBlacklist", ownerId, tokenIndex, targetUserId)
                 EXCEPT !.value = IF after # share_blacklist THEN "changed" ELSE "ignored",
                        !.list = blockedUsers(after, ownerId, tokenIndex)]]
  /\ UNCHANGED <<users, userTokens, share_bans, share_usage, borrower, calls>>
  /\ poolUnchanged

removeFromTokenBlacklist_call(ownerId, tokenIndex, targetUserId) ==
  /\ ShareMacroTask
  /\ LET after == deleteBlacklist(share_blacklist, ownerId, tokenIndex, targetUserId)
     IN /\ share_blacklist' = after
        /\ shareLog' = [shareLog EXCEPT !.result =
              [BlacklistCall("removeFromTokenBlacklist", ownerId, tokenIndex, targetUserId)
                 EXCEPT !.value = "removed",
                        !.list = blockedUsers(after, ownerId, tokenIndex)]]
  /\ UNCHANGED <<users, userTokens, share_bans, share_usage, borrower, calls>>
  /\ poolUnchanged

isUserBlacklisted_call(ownerId, tokenIndex, userId) ==
  /\ ShareMacroTask
  /\ shareLog' = [shareLog EXCEPT !.result =
        [BlacklistCall("isUserBlacklisted", ownerId, tokenIndex, userId)
           EXCEPT !.value = IF isUserBlacklisted(share_blacklist, ownerId, tokenIndex, userId)
                            THEN "true" ELSE "false"]]
  /\ UNCHANGED <<users, userTokens, share_bans, share_usage, share_blacklist,
                 borrower, calls>>
  /\ poolUnchanged

getTokenBlacklist_call(ownerId, tokenIndex) ==
  /\ ShareMacroTask
  /\ shareLog' = [shareLog EXCEPT !.result =
        [BlacklistCall("getTokenBlacklist", ownerId, tokenIndex, 0)
           EXCEPT !.list = blockedUsers(share_blacklist, ownerId, tokenIndex)]]
  /\ UNCHANGED <<users, userTokens, share_bans, share_usage, share_blacklist,
                 borrower, calls>>
  /\ poolUnchanged

InitBlacklist == InitPool([id \in Creds |-> InitRow(TRUE, TRUE)], 0) /\ ShareIdle

\* The owners and borrowers, and the credential indexes, the calls name
Parties == {1, 2}
ListedIndexes == {0, 1}

NextBlacklist ==
  \/ \E ownerId \in Parties, tokenIndex \in ListedIndexes, targetUserId \in Parties :
       \/ addToTokenBlacklist_call(ownerId, tokenIndex, targetUserId)
       \/ removeFromTokenBlacklist_call(ownerId, tokenIndex, targetUserId)
       \/ isUserBlacklisted_call(ownerId, tokenIndex, targetUserId)
  \/ \E ownerId \in Parties, tokenIndex \in ListedIndexes :
       getTokenBlacklist_call(ownerId, tokenIndex)

SpecBlacklist == InitBlacklist /\ [][NextBlacklist]_vars

\* The borrowers blacklisted under one owner and index
Blocked(blacklist, ownerId, tokenIndex) ==
  {b \in Users : <<ownerId, tokenIndex, b>> \in blacklist}

\* The parts of the claim that do not depend on what came before: each
\* operation acts on its own (owner, index) as on a set of borrowers
SetStep ==
  LET r == shareLog'.result
      before == Blocked(share_blacklist, r.callerId, r.tokenIndex)
      after == Blocked(share_blacklist', r.callerId, r.tokenIndex)
      elsewhere == \A o \in Users, i \in 0..(NUserTokens - 1) :
                     <<o, i>> # <<r.callerId, r.tokenIndex>> =>
                       Blocked(share_blacklist', o, i) = Blocked(share_blacklist, o, i)
  IN /\ r.op = "addToTokenBlacklist" =>
          /\ after = before \cup {r.targetUserId}
          /\ (r.targetUserId \in before => share_blacklist' = share_blacklist)
          /\ {r.list[k] : k \in 1..Len(r.list)} = after /\ Len(r.list) = Cardinality(after)
          /\ elsewhere
     /\ r.op = "removeFromTokenBlacklist" =>
          /\ after = before \ {r.targetUserId}
          /\ (r.targetUserId \notin before => share_blacklist' = share_blacklist)
          /\ {r.list[k] : k \in 1..Len(r.list)} = after /\ Len(r.list) = Cardinality(after)
          /\ elsewhere
     /\ r.op = "isUserBlacklisted" =>
          /\ (r.value = "true") = (r.targetUserId \in before)
          /\ share_blacklist' = share_blacklist
     /\ r.op = "getTokenBlacklist" =>
          /\ {r.list[k] : k \in 1..Len(r.list)} = before
          /\ share_blacklist' = share_blacklist

\* The step removes the entry that the step before it was asked to add
RemovesJustAdded ==
  /\ shareLog.result.op = "addToTokenBlacklist"
  /\ shareLog'.result.op = "removeFromTokenBlacklist"
  /\ shareLog'.result.callerId = shareLog.result.callerId
  /\ shareLog'.result.tokenIndex = shareLog.result.tokenIndex
  /\ shareLog'.result.targetUserId = shareLog.result.targetUserId

\* The blacklist as it was before the add that the last step performed
BeforeAdd ==
  IF shareLog.result.value = "changed"
  THEN share_blacklist \ {<<shareLog.result.callerId, shareLog.result.tokenIndex,
                            shareLog.result.targetUserId>>}
  ELSE share_blacklist

\* C36: the blacklist of one (owner, index) behaves as a set of borrowers
\* under add, remove, membership test and listing, no operation touches
\* another owner's or index's blacklist, and an add followed by the remove of
\* the same borrower restores the blacklist there was before the add.
C36_BlacklistIsSet ==
  [][SetStep /\ (RemovesJustAdded => share_blacklist' = BeforeAdd)]_vars

\* C36 (amended): as C36, the add followed by the remove restoring the
\* previous blacklist when the borrower was not on it before the add, and
\* leaving the previous blacklist less that borrower when they were.
C36_BlacklistIsSet_Amended ==
  [][/\ SetStep
     /\ (RemovesJustAdded =>
           share_blacklist' =
             BeforeAdd \ {<<shareLog.result.callerId, shareLog.result.tokenIndex,
                            shareLog.result.targetUserId>>})
     /\ (RemovesJustAdded /\ shareLog.result.value = "changed" =>
           share_blacklist' = BeforeAdd)]_vars

\* Borrower 2 has just been removed from owner 1's index 0 right after being
\* added to it, while borrower 1 stays blacklisted there and borrower 2
\* stays blacklisted under index 1
C36_Witness ==
  /\ shareLog.result.op = "removeFromTokenBlacklist"
  /\ shareLog.result.callerId = 1 /\ shareLog.result.tokenIndex = 0
  /\ shareLog.result.targetUserId = 2
  /\ shareLog.result.list = <<1>>
  /\ share_blacklist = {<<1, 0, 1>>, <<1, 1, 2>>}

-----------------------------------------------------------------------------
(* The two cost counters of a credential through the whole pool: requests   *)
(* are charged, fail with 429 or 400, tokens are refreshed, the cache is    *)
(* reloaded and the clock passes a midnight. Credential 2 starts with costs *)
(* charged on the day of start-up.                                           *)

StartingCosts == {<<0, 0>>, <<0, 1>>, <<1, 1>>}

InitCost ==
  \E on \in {Creds, {1}}, sc \in StartingCosts :
    InitWith([id \in Creds |->
                IF id = 2
                THEN [InitRow(TRUE, id \in on) EXCEPT
                        !.daily_cost = sc[1], !.total_cost = sc[2],
                        !.last_reset_time = IF sc[2] > 0 THEN StartTime ELSE 0,
                        !.total_requests = sc[2]]
                ELSE InitRow(FALSE, id \in on)], 0)

NextCost ==
  \/ Next
  \/ \E p \in Procs, cost \in Costs : upstream_ok(p, cost)

SpecCost == InitCost /\ [][NextCost]_vars

\* C37: the day's cost of a credential never exceeds its lifetime cost, in
\* the store row and in every credential object of the process (cached or
\* still held by a request), whatever charges, day rollovers, reloads,
\* refreshes, quarantines and disablings have happened.
C37_DailyWithinTotal ==
  /\ \A c \in Creds : db[c].daily_cost <= db[c].total_cost
  /\ \A o \in ObjIds : heap[o].cred # 0 => heap[o].dailyCost <= heap[o].totalCost

\* Credential 2 was charged before and after a midnight: the day's cost is
\* positive and smaller than the lifetime cost, in the store and in the cache
C37_Witness ==
  /\ db[2].daily_cost > 0
  /\ db[2].daily_cost < db[2].total_cost
  /\ DateString(db[2].last_reset_time) = DateString(StartTime) + 1
  /\ \E i \in 1..Len(tokens) :
       /\ heap[tokens[i]].cred = 2
       /\ heap[tokens[i]].dailyCost = db[2].daily_cost
       /\ heap[tokens[i]].totalCost = db[2].total_cost

-----------------------------------------------------------------------------
(* Usage accounting while credentials leave the cached set: a request that  *)
(* fails with 400 disables its credential, an administrator disables an     *)
(* account, and other requests made with the same credential are still in   *)
(* flight.                                                                   *)

\* handleRequestError(), lines 264-278, up to the first await of getNextToken()
usage_denied(p, error) ==
  /\ MacroTask
  /\ pc[p] = "holding"
  /\ classify(error) = "disable"
  /\ pc' = [pc EXCEPT ![p] = "gn_select"]
  /\ failed' = [failed EXCEPT ![p] = heap[held[p]].cred]
  /\ Commit(loadTokens(disableToken(Mem, held[p]), FALSE), held)
  /\ UNCHANGED <<now, dbUp, currentTokenIndex, usageStats>>
  /\ thrown' = NotThrown /\ swept' = FALSE
  /\ UNCHANGED <<calls, rotation, quarantinedUntil, lastCharge>>

NextDropped ==
  \/ NextUsage
  \/ \E p \in Procs, error \in Errors : usage_denied(p, error)
  \/ \E c \in Creds : toggleAccount(c, FALSE)

SpecDropped == InitUsage /\ [][NextDropped]_vars

\* Handler p holds a credential that is no longer in the cached set
HoldsUncached(p) ==
  /\ pc[p] = "holding"
  /\ findToken(Mem, heap[held[p]].cred) = 0

\* C38: when a handler finishes with a credential that is no longer in the
\* cached set, addUsage raises nothing and changes neither the store nor any
\* cached credential: the cost of the request is recorded nowhere.
C38_UncachedChargeDropped ==
  [][\A p \in Procs :
       (HoldsUncached(p) /\ pc'[p] = "idle") =>
         /\ db' = db
         /\ thrown' = NotThrown
         /\ lastCharge' = lastCharge
         /\ Len(tokens') = Len(tokens)
         /\ \A i \in 1..Len(tokens) : heap'[tokens'[i]] = heap[tokens[i]]]_vars

\* A request made with credential 2, never charged so far, is about to
\* report its cost, while credential 2 has been disabled and dropped from
\* the cache
C38_Witness ==
  \E p \in Procs :
    /\ MacroTask
    /\ HoldsUncached(p)
    /\ heap[held[p]].cred = 2
    /\ db[2].enabled = 0
    /\ db[2].total_requests = 0
    /\ Len(tokens) = 1

-----------------------------------------------------------------------------
(* Borrowing while the store fails for a while: user 1 shares credentials,  *)
(* user 2, banned until one interval after start-up or not banned, borrows. *)
(* The store stops and resumes answering while no call is past its ban      *)
(* lookup.                                                                   *)

InitLookup ==
  /\ InitPool([id \in Creds |-> InitRow(TRUE, TRUE)], 0)
  /\ users = [u \in Users |-> [enabled |-> 1]]
  /\ userTokens = [t \in UserTokenIds |->
       [user_id |-> 1, enabled |-> 1, is_shared |-> 1, daily_limit |-> 2,
        usage_today |-> 0, last_reset_date |-> 0]]
  /\ share_usage = {}
  /\ share_bans \in {{}, {[user_id |-> 2, ban_until |-> StartTime + TickMs,
                          reason |-> "abuse", created |-> StartTime - DayMs + TickMs]}}
  /\ share_blacklist = {}
  /\ borrower = [q \in Borrowers |-> NoCall]
  /\ shareLog = [result |-> NoResult, borrows |-> [t \in UserTokenIds |-> NoBorrows],
                 bans |-> [u \in Users |-> Cardinality(BanRows(share_bans, u))]]

lookupOutage == SameTurn /\ storeOutage

lookupRecovery == SameTurn /\ storeRecovery

NextLookup ==
  \/ \E q \in Borrowers : getRandomSharedToken_call(q, 2)
  \/ \E q \in Borrowers : getRandomSharedToken_banned(q)
  \/ \E q \in Borrowers : getRandomSharedToken_query(q)
  \/ \E q \in Borrowers : getRandomSharedToken_scan(q)
  \/ \E q \in Borrowers : getRandomSharedToken_return(q)
  \/ \E q \in Borrowers : checkAndBanAbuser_resume(q)
  \/ lookupOutage
  \/ lookupRecovery
  \/ Tick

SpecLookup == InitLookup /\ [][NextLookup]_vars

\* Call q begins in this step, with the store failing
LookupFails(q) ==
  /\ ~dbUp
  /\ borrower[q].pc = "idle"
  /\ borrower'[q].pc = "ban_awaited"

\* C39: a getRandomSharedToken(B) call whose ban lookup meets a failing store
\* takes B for not banned, whether or not B has an unexpired ban record, and
\* leaves share_bans alone: the call goes on to the selection (the step
\* guarded by "not banned"), not to the refusal.
C39_BanCheckFailsOpen ==
  [][\A q \in Borrowers :
       LookupFails(q) =>
         /\ ~borrower'[q].banStatus.banned
         /\ share_bans' = share_bans
         /\ borrower'[q].callerId = 2]_vars

\* User 2 has just been handed a credential while their ban is in force
C39_Witness ==
  /\ shareLog.result.op = "getRandomSharedToken"
  /\ shareLog.result.callerId = 2
  /\ shareLog.result.value = "token"
  /\ BanInForce(share_bans, 2)

====
